---- MODULE Spec2Model ----
(***************************************************************************)
(* Model of munkilib/updatecheck.py: the manifest/catalog resolver that    *)
(* builds installinfo (managed_installs, removals, optional_installs) from *)
(* manifests and catalogs.                                                 *)
(*                                                                         *)
(* Strings are sequences of one-character strings, so that the parsing of  *)
(* "Name-1.2" forms and the formatting of "%s-%s" composites are computed  *)
(* the way the code computes them.                                         *)
(***************************************************************************)
EXTENDS Integers, Sequences, FiniteSets, TLC

\* ------------------------------------------------------------------------
\* Bounds of the model
\* ------------------------------------------------------------------------
\* number of manifest entries dispatched in one run of check()
MaxEntries == 3
\* depth at which the interpreter gives up a runaway recursion
\* (sys.getrecursionlimit() scaled to the size of the catalogs)
RecursionLimit == 6

\* ------------------------------------------------------------------------
\* Strings
\* ------------------------------------------------------------------------
Digit == {"0", "1", "2", "3", "4", "5", "6", "7", "8", "9"}

DigitVal(c) ==
    CASE c = "0" -> 0 [] c = "1" -> 1 [] c = "2" -> 2 [] c = "3" -> 3
      [] c = "4" -> 4 [] c = "5" -> 5 [] c = "6" -> 6 [] c = "7" -> 7
      [] c = "8" -> 8 [] c = "9" -> 9

InSeq(x, s) == \E i \in 1..Len(s) : s[i] = x

\* str.find(delim, i): index of the first occurrence of delim at or after i,
\* 0 when there is none
RECURSIVE Find(_, _, _)
Find(s, delim, i) ==
    IF i + Len(delim) - 1 > Len(s) THEN 0
    ELSE IF SubSeq(s, i, i + Len(delim) - 1) = delim THEN i
    ELSE Find(s, delim, i + 1)

\* start of the last chunk of s.split(delim): the scan is left to right and
\* the occurrences do not overlap
RECURSIVE LastChunkStart(_, _, _)
RECURSIVE ChunkAfter(_, _, _, _)
LastChunkStart(s, delim, i) == ChunkAfter(s, delim, i, Find(s, delim, i))

ChunkAfter(s, delim, i, j) ==
    IF j = 0 THEN i ELSE LastChunkStart(s, delim, j + Len(delim))

\* chunks = aString.split(delim); vers = chunks.pop();
\* name = delim.join(chunks), the last chunk starting at start:
\* <<vers[0] in '0123456789', name, vers, TRUE>>
SplitAt(aString, delim, start) ==
    <<start <= Len(aString) /\ aString[start] \in Digit,
      SubSeq(aString, 1, start - Len(delim) - 1),
      SubSeq(aString, start, Len(aString)),
      TRUE>>

\* one turn of the loop of nameAndVersion for one delimiter:
\* <<matched, name, vers, aString.count(delim) > 0>>
SplitOn(aString, delim) ==
    IF Find(aString, delim, 1) = 0 THEN <<FALSE, aString, <<>>, FALSE>>
    ELSE SplitAt(aString, delim, LastChunkStart(aString, delim, 1))

\* vers[0] on an empty last chunk raises IndexError; dd and d are the turns
\* of the loop for '--' and for '-'
EmptyChunk(dd, d) ==
    \/ dd[4] /\ dd[3] = <<>>
    \/ d[4] /\ ~dd[1] /\ d[3] = <<>>

nameAndVersionRaises(aString) ==
    EmptyChunk(SplitOn(aString, <<"-", "-">>), SplitOn(aString, <<"-">>))

\* the first turn that matched decides
FirstMatch(aString, dd, d) ==
    IF dd[1] THEN <<dd[2], dd[3]>>
    ELSE IF d[1] THEN <<d[2], d[3]>>
    ELSE <<aString, <<>>>>

\* nameAndVersion(aString): <<name, version>>
nameAndVersion(aString) ==
    FirstMatch(aString, SplitOn(aString, <<"-", "-">>),
               SplitOn(aString, <<"-">>))

\* '%s-%s' % (name, version) and '%s--%s' % (name, version)
NameDashVersion(name, vers) == name \o <<"-">> \o vers
NameDashDashVersion(name, vers) == name \o <<"-", "-">> \o vers

\* ------------------------------------------------------------------------
\* Version ordering
\* ------------------------------------------------------------------------
Lower == {"a", "e", "h", "n", "r", "t", "w"}

\* relative character codes of the characters the model uses
OrdSeq == <<" ", "(", ")", "-", ".", "0", "1", "2", "3", "4", "5", "6", "7",
            "8", "9", "A", "B", "C", "M", "U", "a", "e", "h", "n", "r", "t",
            "w">>

Ord(c) == CHOOSE i \in 1..Len(OrdSeq) : OrdSeq[i] = c

CharClass(c) ==
    IF c \in Digit THEN "digit"
    ELSE IF c = "." THEN "dot"
    ELSE IF c \in Lower THEN "alpha"
    ELSE "other"

\* last index of the run of characters of class k that starts at i
RECURSIVE RunEnd(_, _, _)
RunEnd(s, i, k) ==
    IF i < Len(s) /\ CharClass(s[i + 1]) = k THEN RunEnd(s, i + 1, k) ELSE i

RECURSIVE Num(_)
Num(ds) ==
    IF ds = <<>> THEN 0
    ELSE 10 * Num(SubSeq(ds, 1, Len(ds) - 1)) + DigitVal(ds[Len(ds)])

\* the component list of a loose version: runs of digits become numbers,
\* the other runs stay strings, the dots are dropped
RECURSIVE Components(_, _)
RECURSIVE ComponentRun(_, _, _, _)
Components(s, i) ==
    IF i > Len(s) THEN <<>>
    ELSE IF CharClass(s[i]) = "dot" THEN Components(s, i + 1)
    ELSE ComponentRun(s, i, CharClass(s[i]), RunEnd(s, i, CharClass(s[i])))

\* the component made of s[i..e], a run of class k, and those after it
ComponentRun(s, i, k, e) ==
    <<IF k = "digit"
      THEN [int |-> TRUE, n |-> Num(SubSeq(s, i, e)), str |-> <<>>]
      ELSE [int |-> FALSE, n |-> 0, str |-> SubSeq(s, i, e)]>>
    \o Components(s, e + 1)

\* cmp of two strings, character by character
RECURSIVE CmpStr(_, _)
CmpStr(a, b) ==
    IF a = <<>> /\ b = <<>> THEN 0
    ELSE IF a = <<>> THEN -1
    ELSE IF b = <<>> THEN 1
    ELSE IF Ord(a[1]) < Ord(b[1]) THEN -1
    ELSE IF Ord(a[1]) > Ord(b[1]) THEN 1
    ELSE CmpStr(Tail(a), Tail(b))

\* cmp of two components: a number sorts before a string
CmpComponent(a, b) ==
    IF a.int /\ b.int
    THEN (IF a.n < b.n THEN -1 ELSE IF a.n > b.n THEN 1 ELSE 0)
    ELSE IF a.int THEN -1
    ELSE IF b.int THEN 1
    ELSE CmpStr(a.str, b.str)

\* version_list padded with 0 components up to max_length
RECURSIVE Pad(_, _)
Pad(version_list, max_length) ==
    IF Len(version_list) >= max_length THEN version_list
    ELSE Pad(Append(version_list, [int |-> TRUE, n |-> 0, str |-> <<>>]),
             max_length)

RECURSIVE CmpList(_, _)
RECURSIVE CmpRest(_, _, _)
CmpList(a, b) ==
    IF a = <<>> THEN 0 ELSE CmpRest(CmpComponent(a[1], b[1]), a, b)

CmpRest(c, a, b) == IF c # 0 THEN c ELSE CmpList(Tail(a), Tail(b))

\* cmp of two component lists, each padded to the length of the longer
CmpPadded(va, vb) ==
    IF Len(va) > Len(vb) THEN CmpList(va, Pad(vb, Len(va)))
    ELSE CmpList(Pad(va, Len(vb)), vb)

\* cmp(MunkiLooseVersion(a), MunkiLooseVersion(b)); None parses as ''
MunkiLooseVersionCmp(a, b) == CmpPadded(Components(a, 1), Components(b, 1))

\* the result compareVersions makes of a cmp
VersionResult(c) == IF c < 0 THEN -1 ELSE IF c = 0 THEN 1 ELSE 2

\* compareVersions(thisvers, thatvers): -1 older, 1 same, 2 newer
compareVersions(thisvers, thatvers) ==
    VersionResult(MunkiLooseVersionCmp(thisvers, thatvers))

\* s.split('.')
RECURSIVE SplitDots(_)
RECURSIVE SplitDotAt(_, _)
SplitDots(s) == SplitDotAt(s, Find(s, <<".">>, 1))

SplitDotAt(s, j) ==
    IF j = 0 THEN <<s>>
    ELSE <<SubSeq(s, 1, j - 1)>> \o SplitDots(SubSeq(s, j + 1, Len(s)))

\* '.'.join(parts)
RECURSIVE JoinDots(_)
JoinDots(parts) ==
    IF parts = <<>> THEN <<>>
    ELSE IF Len(parts) = 1 THEN parts[1]
    ELSE parts[1] \o <<".">> \o JoinDots(Tail(parts))

\* StripTrailingZeros with an 'if' in the place of its 'while'
StripOneTrailingZero(version_parts) ==
    IF Len(version_parts) > 2 /\ version_parts[Len(version_parts)] = <<"0">>
    THEN SubSeq(version_parts, 1, Len(version_parts) - 1)
    ELSE version_parts

\* while len(version_parts) > 2 and version_parts[-1] == '0'
RECURSIVE StripTrailingZeros(_)
StripTrailingZeros(version_parts) ==
    IF Len(version_parts) > 2 /\ version_parts[Len(version_parts)] = <<"0">>
    THEN StripTrailingZeros(SubSeq(version_parts, 1, Len(version_parts) - 1))
    ELSE version_parts

\* trimVersionString(version_string)
trimVersionString(version_string) ==
    IF version_string = <<>> THEN <<>>
    ELSE JoinDots(StripTrailingZeros(SplitDots(version_string)))

\* ------------------------------------------------------------------------
\* State
\* ------------------------------------------------------------------------
VARIABLES
    CATALOG,        \* catalog name -> list of pkginfo items (CATALOG[..]['items'])
    MACHINE,        \* machine facts: os_vers, arch
    maincatalogs,   \* 'catalogs' of the primary manifest
    fetchres,       \* what the fetch collaborator answers for each payload
    installinfo,    \* the record check() builds
    pkg_references, \* PKGDATA['pkg_references']
    pc,             \* position of check() in its sequence of passes
    entries,        \* manifest entries dispatched so far in this run
    dispatched,     \* the manifest entry dispatched last: <<key, item>>
    calls,          \* the calls made by the most recent dispatch, in order of return
    failedInstalls, \* manifest names for which processInstall returned False so far
    args,           \* the arguments of the function called on its own, <<>> when none
    returned,       \* <<what that call returned>>, <<>> before it returns
    stop,           \* munkicommon.stopRequested()
    installinfo_plist  \* InstallInfo.plist: <<what is stored>>, <<>> when no file

vars == <<CATALOG, MACHINE, maincatalogs, fetchres, installinfo,
          pkg_references, pc, entries, dispatched, calls, failedInstalls,
          args, returned, stop, installinfo_plist>>

\* ------------------------------------------------------------------------
\* Catalog lookups
\* ------------------------------------------------------------------------
\* catalogname in CATALOG.keys()
CatalogLoaded(catalogname) == catalogname \in DOMAIN CATALOG

\* keys of CATALOG[catalogname]['named'][name]: the trimmed versions
\* (makeCatalogDB)
VersionKeys(catalogname, name) ==
    {trimVersionString(CATALOG[catalogname][i].version) :
        i \in {j \in 1..Len(CATALOG[catalogname]) :
                  CATALOG[catalogname][j].name = name}}

\* CATALOG[catalogname]['named'][name][vers]: indexes in catalog order
RECURSIVE IndexList(_, _, _, _)
IndexList(catalogname, name, vers, i) ==
    IF i > Len(CATALOG[catalogname]) THEN <<>>
    ELSE IF /\ CATALOG[catalogname][i].name = name
            /\ trimVersionString(CATALOG[catalogname][i].version) = vers
         THEN <<i>> \o IndexList(catalogname, name, vers, i + 1)
         ELSE IndexList(catalogname, name, vers, i + 1)

\* the version keys sorted the other way round: oldest first
RECURSIVE SortOldestFirst(_)
SortOldestFirst(keys) ==
    IF keys = {} THEN <<>>
    ELSE LET bottom == CHOOSE k \in keys :
                           \A o \in keys : MunkiLooseVersionCmp(k, o) <= 0
         IN  <<bottom>> \o SortOldestFirst(keys \ {bottom})

\* versionlist.sort(compare_version_keys): latest first
RECURSIVE SortLatestFirst(_)
RECURSIVE LatestThenRest(_, _)
SortLatestFirst(keys) ==
    IF keys = {} THEN <<>>
    ELSE LatestThenRest(CHOOSE k \in keys :
                           \A o \in keys : MunkiLooseVersionCmp(k, o) >= 0,
                        keys)

LatestThenRest(top, keys) == <<top>> \o SortLatestFirst(keys \ {top})

RECURSIVE ConcatIndexLists(_, _, _)
ConcatIndexLists(catalogname, name, versionlist) ==
    IF versionlist = <<>> THEN <<>>
    ELSE IndexList(catalogname, name, Head(versionlist), 1)
         \o ConcatIndexLists(catalogname, name, Tail(versionlist))

\* a variant of MeetsRequirements without the check of
\* supported_architectures
MeetsOsRequirements(item) ==
    /\ \/ item.minimum_os_version = <<>>
       \/ ~(MunkiLooseVersionCmp(MACHINE.os_vers, item.minimum_os_version) < 0)
    /\ \/ item.maximum_os_version = <<>>
       \/ ~(MunkiLooseVersionCmp(MACHINE.os_vers, item.maximum_os_version) > 0)

\* the os and cpu checks of getItemDetail on one item
MeetsRequirements(item) ==
    /\ \/ item.minimum_os_version = <<>>
       \/ ~(MunkiLooseVersionCmp(MACHINE.os_vers, item.minimum_os_version) < 0)
    /\ \/ item.maximum_os_version = <<>>
       \/ ~(MunkiLooseVersionCmp(MACHINE.os_vers, item.maximum_os_version) > 0)
    /\ \/ ~item.has_supported_architectures
       \/ InSeq(MACHINE.arch, item.supported_architectures)

\* first item of indexlist that meets the requirements: <<item>> or <<>>
RECURSIVE FirstAcceptable(_, _)
FirstAcceptable(catalogname, indexlist) ==
    IF indexlist = <<>> THEN <<>>
    ELSE IF MeetsRequirements(CATALOG[catalogname][Head(indexlist)])
         THEN <<CATALOG[catalogname][Head(indexlist)]>>
         ELSE FirstAcceptable(catalogname, Tail(indexlist))

\* the body of the loop of getItemDetail for one catalog: <<item>> or <<>>
SearchCatalog(catalogname, name, latest, vers) ==
    IF ~CatalogLoaded(catalogname) THEN <<>>
    ELSE FirstAcceptable(catalogname,
             IF latest
             THEN ConcatIndexLists(catalogname, name,
                      SortLatestFirst(VersionKeys(catalogname, name)))
             ELSE IndexList(catalogname, name, vers, 1))

\* for catalogname in cataloglist: the first catalog with an item decides
RECURSIVE SearchCatalogs(_, _, _, _)
RECURSIVE SearchOn(_, _, _, _, _)
SearchCatalogs(name, latest, vers, cataloglist) ==
    IF cataloglist = <<>> THEN <<>>
    ELSE SearchOn(SearchCatalog(Head(cataloglist), name, latest, vers),
                  name, latest, vers, cataloglist)

\* a variant of SearchOn in which a later catalog that holds an item
\* decides
SearchOnLaterCatalogs(found, name, latest, vers, cataloglist) ==
    IF SearchCatalogs(name, latest, vers, Tail(cataloglist)) # <<>>
    THEN SearchCatalogs(name, latest, vers, Tail(cataloglist))
    ELSE found

SearchOn(found, name, latest, vers, cataloglist) ==
    IF found # <<>> THEN found
    ELSE SearchCatalogs(name, latest, vers, Tail(cataloglist))

\* getItemDetail once the version asked for is known: 'latest' when empty
DetailForVersion(name, vers, cataloglist) ==
    SearchCatalogs(name, vers = <<>>, trimVersionString(vers), cataloglist)

\* getItemDetail with nv = nameAndVersion(name)
DetailForName(nv, cataloglist, vers) ==
    DetailForVersion(nv[1], IF vers = <<>> THEN nv[2] ELSE vers, cataloglist)

\* getItemDetail(name, cataloglist, vers): <<item>>, or <<>> for None
getItemDetail(name, cataloglist, vers) ==
    DetailForName(nameAndVersion(name), cataloglist, vers)

\* list(set(l)): the distinct elements of l
RECURSIVE SetToList(_)
SetToList(S) ==
    IF S = {} THEN <<>>
    ELSE LET x == CHOOSE y \in S : TRUE IN <<x>> \o SetToList(S \ {x})

Range(l) == {l[i] : i \in 1..Len(l)}

\* names of CATALOG[catalogname]['updaters'] whose update_for has itemname
UpdatersIn(catalogname, itemname) ==
    {CATALOG[catalogname][i].name :
        i \in {j \in 1..Len(CATALOG[catalogname]) :
                  InSeq(itemname, CATALOG[catalogname][j].update_for)}}

\* lookForUpdates(itemname, cataloglist)
lookForUpdates(itemname, cataloglist) ==
    SetToList(UNION {IF CatalogLoaded(cataloglist[c])
                     THEN UpdatersIn(cataloglist[c], itemname)
                     ELSE {} : c \in 1..Len(cataloglist)})

\* lookForUpdatesForVersion(itemname, itemversion, cataloglist)
lookForUpdatesForVersion(itemname, itemversion, cataloglist) ==
    SetToList(
        Range(lookForUpdates(NameDashVersion(itemname, itemversion),
                             cataloglist))
        \cup Range(lookForUpdates(NameDashDashVersion(itemname, itemversion),
                                  cataloglist)))

\* ------------------------------------------------------------------------
\* Installed-state detection
\* ------------------------------------------------------------------------
\* An installs descriptor carries what compareItemVersion finds for it on this
\* machine: result in {-1, 0, 1, 2}, or malformed (munkicommon.Error).  A
\* receipt carries its packageid and version; INSTALLEDPKGS is in MACHINE.

\* compareReceiptVersion(item)
compareReceiptVersion(receipt) ==
    IF receipt.packageid \in DOMAIN MACHINE.installedpkgs
    THEN compareVersions(MACHINE.installedpkgs[receipt.packageid],
                         receipt.version)
    ELSE 0

\* the loop of installedState, were an older version let through
RECURSIVE ScanComparisonsPassingOlder(_, _)
ScanComparisonsPassingOlder(results, foundnewer) ==
    IF results = <<>> THEN (IF foundnewer THEN 2 ELSE 1)
    ELSE IF Head(results).malformed \/ Head(results).result = 0 THEN 0
    ELSE ScanComparisonsPassingOlder(Tail(results),
                                     foundnewer \/ Head(results).result = 2)

\* the loop of installedState over comparison results:
\* 0 as soon as one is absent, older or malformed
RECURSIVE ScanComparisons(_, _)
ScanComparisons(results, foundnewer) ==
    IF results = <<>> THEN (IF foundnewer THEN 2 ELSE 1)
    ELSE IF Head(results).malformed \/ Head(results).result \in {-1, 0} THEN 0
    ELSE ScanComparisons(Tail(results),
                         foundnewer \/ Head(results).result = 2)

\* compareReceiptVersion raises munkicommon.Error on a receipt that lacks its
\* packageid or its version
ReceiptMalformed(receipt) ==
    ~({"packageid", "version"} \subseteq DOMAIN receipt)

ReceiptResults(item_pl) ==
    [i \in 1..Len(item_pl.receipts) |->
        [malformed |-> ReceiptMalformed(item_pl.receipts[i]),
         result |-> IF ReceiptMalformed(item_pl.receipts[i]) THEN 0
                    ELSE compareReceiptVersion(item_pl.receipts[i])]]

\* installedState(item_pl): 0 needs install, 1 installed, 2 newer installed
installedState(item_pl) ==
    IF item_pl.softwareupdatename # <<>>
    THEN (IF item_pl.softwareupdatename \in MACHINE.appleupdates THEN 0 ELSE 1)
    ELSE IF item_pl.installs # <<>>
         THEN ScanComparisons(item_pl.installs, FALSE)
         ELSE ScanComparisons(ReceiptResults(item_pl), FALSE)

\* someVersionInstalled(item_pl)
someVersionInstalled(item_pl) ==
    IF item_pl.installs # <<>>
    THEN \A i \in 1..Len(item_pl.installs) :
            /\ ~item_pl.installs[i].malformed
            /\ item_pl.installs[i].result # 0
    ELSE \A i \in 1..Len(item_pl.receipts) :
            compareReceiptVersion(item_pl.receipts[i]) # 0

\* getInstalledVersion(item_plist): the version found on disk, or the
\* '(newer than ...)' text processInstall makes of 'UNKNOWN'
NewerThan(version) ==
    <<"(", "n", "e", "w", "e", "r", " ", "t", "h", "a", "n", " ">>
    \o version \o <<")">>

OrNewer == <<"(", "o", "r", " ", "n", "e", "w", "e", "r", ")">>

\* isItemInInstallInfo(manifestitem_pl, thelist, vers)
isItemInInstallInfo(manifestitem_pl, thelist, vers) ==
    \E i \in 1..Len(thelist) :
        /\ thelist[i].name = manifestitem_pl.name
        /\ \/ vers = <<>>
           \/ thelist[i].installed
           \/ compareVersions(thelist[i].version_to_install, vers) \in {1, 2}


\* ------------------------------------------------------------------------
\* The resolver.  Its functions thread one record through their recursion:
\*   installinfo     the lists being built
\*   pkg_references  PKGDATA['pkg_references']
\*   calls           the calls that returned, in order of return
\*   failedInstalls  names for which processInstall returned False
\*   ret             the value the last call returned
\*   exc             the exception that is propagating, "" when none
\* ------------------------------------------------------------------------
\* A call record keeps: fn and item, the function and its manifestitem;
\* item_pl, <<the pkginfo the call worked on>> or <<>>; ret, what it
\* returned; pre and post, installinfo at entry and at return; failedBefore,
\* failedInstalls at return; fetcherror, the exception the payload fetch of
\* this call raised, "" when none; atfetch, len(managed_installs) when it
\* was raised.
CallRecord(fn, item, item_pl, ret, pre, st) ==
    [fn |-> fn, item |-> item, item_pl |-> item_pl, ret |-> ret,
     pre |-> pre, post |-> st.installinfo,
     failedBefore |-> st.failedInstalls,
     fetcherror |-> "", atfetch |-> 0]

\* return ret from a call of fn on item
Return(fn, item, item_pl, ret, pre, st) ==
    [st EXCEPT !.ret = ret,
               !.calls = Append(@, CallRecord(fn, item, item_pl, ret, pre, st)),
               !.failedInstalls =
                   IF fn = "processInstall" /\ ~ret THEN @ \cup {item} ELSE @]

Raise(exception, st) == [st EXCEPT !.exc = exception]

\* the call that just returned did so from an except branch of the fetch
FetchFailed(outcome, atfetch, st) ==
    [st EXCEPT !.calls[Len(st.calls)].fetcherror = outcome,
               !.calls[Len(st.calls)].atfetch = atfetch]

\* enoughDiskSpace(manifestitem_pl, installlist): sizes in KB
fudgefactor == 102400

\* enoughDiskSpace, were the installs already queued not subtracted
enoughDiskSpaceIgnoringQueued(manifestitem_pl, installlist) ==
    MACHINE.availablediskspace
       > manifestitem_pl.installer_item_size
         - (IF manifestitem_pl.installer_item_location \in MACHINE.cache
            THEN manifestitem_pl.installer_item_size ELSE 0)
         + (IF manifestitem_pl.installed_size >= 0
            THEN manifestitem_pl.installed_size
            ELSE manifestitem_pl.installer_item_size)
         + fudgefactor

enoughDiskSpace(manifestitem_pl, installlist) ==
    LET alreadydownloadedsize ==
            IF manifestitem_pl.installer_item_location \in MACHINE.cache
            THEN manifestitem_pl.installer_item_size ELSE 0
        installedsize ==
            IF manifestitem_pl.installed_size >= 0
            THEN manifestitem_pl.installed_size
            ELSE manifestitem_pl.installer_item_size
        diskspaceneeded ==
            manifestitem_pl.installer_item_size - alreadydownloadedsize
            + installedsize + fudgefactor
        RECURSIVE Reserved(_)
        Reserved(l) ==
            IF l = <<>> THEN 0
            ELSE (IF Head(l).installer_item # "" THEN Head(l).installed_size
                  ELSE 0) + Reserved(Tail(l))
    IN  MACHINE.availablediskspace - Reserved(installlist) > diskspaceneeded

\* the outcome of download_installeritem(item_pl, installinfo):
\* "downloaded", "cached" or the name of the exception raised;
\* "InsufficientDiskSpace" is the MunkiDownloadError raised before any fetch
\* when the payload is not in the cache and the disk space does not suffice
download_installeritem(item_pl, installlist) ==
    IF item_pl.installer_item_location = ""
    THEN "MunkiDownloadError"
    ELSE IF /\ item_pl.installer_item_location \notin MACHINE.cache
            /\ ~enoughDiskSpace(item_pl, installlist)
    THEN "InsufficientDiskSpace"
    ELSE fetchres[item_pl.installer_item_location]

DownloadErrors ==
    {"PackageVerificationError", "CurlDownloadError", "MunkiDownloadError",
     "InsufficientDiskSpace"}

DownloadNote(outcome) ==
    CASE outcome = "PackageVerificationError" -> "Integrity check failed"
      [] outcome = "CurlDownloadError" -> "Download failed"
      [] outcome = "InsufficientDiskSpace" ->
             "Insufficient disk space to download and install"
      [] OTHER -> "Download error"

\* the iteminfo processInstall builds
InstallItemInfo(item_pl, installed, installer_item, version_to_install, installed_version, note, optional_keys) ==
    [name |-> item_pl.name,
     installed |-> installed,
     installer_item |-> installer_item,
     version_to_install |-> version_to_install,
     installed_version |-> installed_version,
     note |-> note,
     installed_size |-> IF item_pl.installed_size >= 0
                        THEN item_pl.installed_size
                        ELSE item_pl.installer_item_size,
     requires |-> IF optional_keys THEN item_pl.requires ELSE <<>>,
     update_for |-> IF optional_keys THEN item_pl.update_for ELSE <<>>]

AppendInstall(st, iteminfo) ==
    [st EXCEPT !.installinfo.managed_installs = Append(@, iteminfo)]

RECURSIVE processInstall(_, _, _, _)
RECURSIVE InstallEach(_, _, _, _, _)
RECURSIVE InstallRest(_, _, _, _, _)

\* for item in items: processInstall(item, cataloglist, installinfo)
InstallEach(items, cataloglist, st, depth, success) ==
    IF items = <<>> \/ st.exc # "" THEN [st |-> st, success |-> success]
    ELSE InstallRest(Tail(items), cataloglist,
                     processInstall(Head(items), cataloglist, st, depth + 1),
                     depth, success)

InstallRest(items, cataloglist, after, depth, success) ==
    InstallEach(items, cataloglist, after, depth, success /\ after.ret)

\* the iteminfo of an item that will be installed
PendingItemInfo(item_pl) ==
    InstallItemInfo(item_pl, FALSE, item_pl.installer_item_location,
                    item_pl.version, <<>>, "", TRUE)

\* the end of processInstall: the updates have been processed
InstallUpdated(manifestitem, item_pl, pre, updated) ==
    IF updated.exc # "" THEN updated
    ELSE Return("processInstall", manifestitem, <<item_pl>>, TRUE, pre,
                updated)

\* a variant of InstallDownloaded whose except branches keep the payload
\* reference and the version in the record they append
InstallDownloadedKeepingPayload(manifestitem, nv, item_pl, outcome, cataloglist, pre, st, depth) ==
    IF outcome \in DownloadErrors
    THEN FetchFailed(outcome, Len(st.installinfo.managed_installs),
             Return("processInstall", manifestitem, <<item_pl>>, FALSE, pre,
                 AppendInstall(st, InstallItemInfo(item_pl, FALSE,
                                   item_pl.installer_item_location,
                                   item_pl.version, <<>>,
                                   DownloadNote(outcome), FALSE))))
    ELSE IF nv[2] # <<>>
    THEN Raise("TypeError", AppendInstall(st, PendingItemInfo(item_pl)))
    ELSE InstallUpdated(manifestitem, item_pl, pre,
             InstallEach(lookForUpdates(nv[1], cataloglist)
                         \o lookForUpdatesForVersion(nv[1], item_pl.version,
                                                     cataloglist),
                         cataloglist,
                         AppendInstall(st, PendingItemInfo(item_pl)),
                         depth, TRUE).st)

\* the branch of processInstall for installed_state == 0, from the outcome
\* of download_installeritem on
InstallDownloaded(manifestitem, nv, item_pl, outcome, cataloglist, pre, st, depth) ==
    IF outcome \in DownloadErrors
    THEN FetchFailed(outcome, Len(st.installinfo.managed_installs),
             Return("processInstall", manifestitem, <<item_pl>>, FALSE, pre,
                 AppendInstall(st, InstallItemInfo(item_pl, FALSE, "", <<>>,
                                   <<>>, DownloadNote(outcome), FALSE))))
    ELSE IF nv[2] # <<>>
    THEN \* lookForUpdatesForVersion is called without cataloglist
         Raise("TypeError", AppendInstall(st, PendingItemInfo(item_pl)))
    ELSE InstallUpdated(manifestitem, item_pl, pre,
             InstallEach(lookForUpdates(nv[1], cataloglist)
                         \o lookForUpdatesForVersion(nv[1], item_pl.version,
                                                     cataloglist),
                         cataloglist,
                         AppendInstall(st, PendingItemInfo(item_pl)),
                         depth, TRUE).st)

\* the branch of processInstall for installed_state == 0
InstallNeeded(manifestitem, item_pl, cataloglist, pre, st, depth) ==
    InstallDownloaded(manifestitem, nameAndVersion(manifestitem), item_pl,
                      download_installeritem(item_pl,
                          st.installinfo.managed_installs),
                      cataloglist, pre, st,
                      depth)

\* iteminfo['installed_version'] of an item that needs no install
InstalledVersion(item_pl, installed_state) ==
    IF installed_state = 1 THEN item_pl.version
    ELSE IF item_pl.disk_version # <<>> THEN item_pl.disk_version
    ELSE NewerThan(item_pl.version)

\* the updates processInstall looks for when the item is installed
InstalledUpdateList(nv, installed_version, cataloglist) ==
    IF nv[2] = <<>>
    THEN lookForUpdates(nv[1], cataloglist)
         \o (IF Find(installed_version, OrNewer, 1) = 0
             THEN lookForUpdatesForVersion(nv[1], installed_version,
                                           cataloglist)
             ELSE <<>>)
    ELSE IF compareVersions(nv[2], installed_version) = 1
    THEN lookForUpdatesForVersion(nv[1], nv[2], cataloglist)
    ELSE <<>>

\* the branch of processInstall for installed_state 1 or 2, from
\* installed_version on
InstallPresent(manifestitem, item_pl, installed_version, cataloglist, pre, st, depth) ==
    InstallUpdated(manifestitem, item_pl, pre,
        InstallEach(InstalledUpdateList(nameAndVersion(manifestitem),
                                        installed_version, cataloglist),
                    cataloglist,
                    AppendInstall(st, InstallItemInfo(item_pl, TRUE, "",
                                      <<>>, installed_version, "", FALSE)),
                    depth, TRUE).st)

\* the branch of processInstall for installed_state 1 or 2
AlreadyInstalled(manifestitem, item_pl, installed_state, cataloglist, pre, st, depth) ==
    InstallPresent(manifestitem, item_pl,
                   InstalledVersion(item_pl, installed_state), cataloglist,
                   pre, st, depth)

\* processInstall from installed_state on
InstallByState(manifestitem, item_pl, installed_state, cataloglist, pre, st, depth) ==
    IF installed_state = 0
    THEN InstallNeeded(manifestitem, item_pl, cataloglist, pre, st, depth)
    ELSE AlreadyInstalled(manifestitem, item_pl, installed_state,
                          cataloglist, pre, st, depth)

\* processInstall after the loop over item_pl['requires']
InstallRequired(manifestitem, item_pl, required, cataloglist, pre, depth) ==
    IF required.st.exc # "" THEN required.st
    ELSE IF ~required.success
    THEN Return("processInstall", manifestitem, <<item_pl>>, FALSE, pre,
                required.st)
    ELSE InstallByState(manifestitem, item_pl, installedState(item_pl),
                        cataloglist, pre, required.st, depth)

\* processInstall of the item found, the name being in processed_installs
InstallItem(manifestitem, item_pl, cataloglist, pre, marked, depth) ==
    IF isItemInInstallInfo(item_pl, marked.installinfo.managed_installs,
                           item_pl.version)
    THEN Return("processInstall", manifestitem, <<item_pl>>, TRUE, pre,
                marked)
    ELSE InstallRequired(manifestitem, item_pl,
                         InstallEach(item_pl.requires, cataloglist, marked,
                                     depth, TRUE),
                         cataloglist, pre, depth)

\* installinfo['processed_installs'].append(manifestitemname), unless the
\* name is a managed update
MarkProcessed(manifestitem, st) ==
    IF InSeq(manifestitem, st.installinfo.managed_updates) THEN st
    ELSE [st EXCEPT !.installinfo.processed_installs =
                        Append(@, manifestitem)]

\* a variant of InstallFound that adds the name to processed_installs also
\* when no item is found
InstallFoundMarkingMissing(manifestitem, found, cataloglist, st, depth) ==
    IF found = <<>>
    THEN Return("processInstall", manifestitem, <<>>, FALSE, st.installinfo,
                MarkProcessed(manifestitem, st))
    ELSE InstallItem(manifestitem, found[1], cataloglist, st.installinfo,
                     MarkProcessed(manifestitem, st), depth)

\* processInstall from the answer of getItemDetail on
InstallFound(manifestitem, found, cataloglist, st, depth) ==
    IF found = <<>>
    THEN Return("processInstall", manifestitem, <<>>, FALSE, st.installinfo,
                st)
    ELSE InstallItem(manifestitem, found[1], cataloglist, st.installinfo,
                     MarkProcessed(manifestitem, st), depth)

\* a variant of processInstall without the check of processed_uninstalls
processInstallIgnoringUninstalls(manifestitem, cataloglist, st, depth) ==
    IF depth > RecursionLimit THEN Raise("RuntimeError", st)
    ELSE IF nameAndVersionRaises(manifestitem) THEN Raise("IndexError", st)
    ELSE IF InSeq(manifestitem, st.installinfo.processed_installs)
    THEN Return("processInstall", manifestitem, <<>>, TRUE, st.installinfo,
                st)
    ELSE InstallFound(manifestitem,
                      getItemDetail(manifestitem, cataloglist, <<>>),
                      cataloglist, st, depth)

\* a variant of processInstall that looks in processed_uninstalls for the
\* name as the manifest gives it, version included
processInstallExactName(manifestitem, cataloglist, st, depth) ==
    IF depth > RecursionLimit THEN Raise("RuntimeError", st)
    ELSE IF nameAndVersionRaises(manifestitem) THEN Raise("IndexError", st)
    ELSE IF InSeq(manifestitem, st.installinfo.processed_installs)
    THEN Return("processInstall", manifestitem, <<>>, TRUE, st.installinfo,
                st)
    ELSE IF InSeq(manifestitem, st.installinfo.processed_uninstalls)
    THEN Return("processInstall", manifestitem, <<>>, FALSE, st.installinfo,
                st)
    ELSE InstallFound(manifestitem,
                      getItemDetail(manifestitem, cataloglist, <<>>),
                      cataloglist, st, depth)

\* processInstall(manifestitem, cataloglist, installinfo)
processInstall(manifestitem, cataloglist, st, depth) ==
    IF depth > RecursionLimit THEN Raise("RuntimeError", st)
    ELSE IF nameAndVersionRaises(manifestitem) THEN Raise("IndexError", st)
    ELSE IF InSeq(manifestitem, st.installinfo.processed_installs)
    THEN Return("processInstall", manifestitem, <<>>, TRUE, st.installinfo,
                st)
    ELSE IF InSeq(nameAndVersion(manifestitem)[1],
                  st.installinfo.processed_uninstalls)
    THEN Return("processInstall", manifestitem, <<>>, FALSE, st.installinfo,
                st)
    ELSE InstallFound(manifestitem,
                      getItemDetail(manifestitem, cataloglist, <<>>),
                      cataloglist, st, depth)

\* UpdateFound without its test of someVersionInstalled
UpdateFoundUnconditional(manifestitem, found, cataloglist, st) ==
    IF found = <<>> THEN st
    ELSE processInstall(manifestitem, cataloglist,
                        [st EXCEPT !.installinfo.managed_updates =
                                       Append(@, manifestitem)], 1)

\* processManagedUpdate from the answer of getItemDetail on
UpdateFound(manifestitem, found, cataloglist, st) ==
    IF found = <<>> THEN st
    ELSE IF someVersionInstalled(found[1])
    THEN processInstall(manifestitem, cataloglist,
                        [st EXCEPT !.installinfo.managed_updates =
                                       Append(@, manifestitem)], 1)
    ELSE st

\* processManagedUpdate(manifestitem, cataloglist, installinfo)
processManagedUpdate(manifestitem, cataloglist, st) ==
    IF \/ InSeq(manifestitem, st.installinfo.managed_updates)
       \/ InSeq(manifestitem, st.installinfo.processed_installs)
       \/ InSeq(manifestitem, st.installinfo.processed_uninstalls)
    THEN st
    ELSE IF nameAndVersionRaises(manifestitem) THEN Raise("IndexError", st)
    ELSE UpdateFound(manifestitem,
                     getItemDetail(manifestitem, cataloglist, <<>>),
                     cataloglist, st)

\* the iteminfo processOptionalInstall builds
OptionalItemInfo(item_pl, installed, needs_update, installlist) ==
    [name |-> item_pl.name,
     version_to_install |-> item_pl.version,
     installed |-> installed,
     needs_update |-> needs_update,
     uninstallable |-> item_pl.uninstallable,
     note |-> IF /\ ~installed \/ needs_update
                 /\ ~enoughDiskSpace(item_pl, installlist)
              THEN "Insufficient disk space to download and install."
              ELSE "",
     will_be_installed |-> FALSE,
     will_be_removed |-> FALSE]

\* processOptionalInstall of the item found, were the item also marked as
\* processed for install
OptionalItemMarkingProcessed(item_pl, installed, st) ==
    [st EXCEPT !.installinfo.optional_installs =
                   Append(@, OptionalItemInfo(item_pl, installed,
                                 installed /\ installedState(item_pl) = 0,
                                 st.installinfo.managed_installs)),
               !.installinfo.processed_installs = Append(@, item_pl.name)]

\* processOptionalInstall of the item found, from iteminfo['installed'] on
OptionalItem(item_pl, installed, st) ==
    [st EXCEPT !.installinfo.optional_installs =
        Append(@, OptionalItemInfo(item_pl, installed,
                      installed /\ installedState(item_pl) = 0,
                      st.installinfo.managed_installs))]

\* processOptionalInstall from the answer of getItemDetail on
OptionalFound(found, st) ==
    IF found = <<>> THEN st
    ELSE OptionalItem(found[1], someVersionInstalled(found[1]), st)

\* processOptionalInstall(manifestitem, cataloglist, installinfo)
processOptionalInstall(manifestitem, cataloglist, st) ==
    IF \/ InSeq(manifestitem, st.installinfo.processed_installs)
       \/ InSeq(manifestitem, st.installinfo.processed_uninstalls)
       \/ \E i \in 1..Len(st.installinfo.optional_installs) :
             st.installinfo.optional_installs[i].name = manifestitem
    THEN st
    ELSE IF nameAndVersionRaises(manifestitem) THEN Raise("IndexError", st)
    ELSE OptionalFound(getItemDetail(manifestitem, cataloglist, <<>>), st)

\* ------------------------------------------------------------------------
\* Installed packages (PKGDATA)
\* ------------------------------------------------------------------------
AllCatalogItems ==
    UNION {Range(CATALOG[c]) : c \in DOMAIN CATALOG}

\* addPackageids: the packageids the items called name list in their receipts
ManagedPkgids(name) ==
    UNION {{item.receipts[i].packageid : i \in 1..Len(item.receipts)} :
              item \in {it \in AllCatalogItems : it.name = name}}

NamesWithReceipts ==
    {item.name : item \in {it \in AllCatalogItems : it.receipts # <<>>}}

\* installedpkgsmatchedtoname[name]
InstalledPkgsFor(name) ==
    ManagedPkgids(name) \cap DOMAIN MACHINE.installedpkgs

FullyInstalled ==
    {n \in NamesWithReceipts : ManagedPkgids(n) \subseteq DOMAIN MACHINE.installedpkgs}

PartiallyInstalled ==
    {n \in NamesWithReceipts \ FullyInstalled : InstalledPkgsFor(n) # {}}

\* analyzeInstalledPkgs(): PKGDATA['installed_names']
InstalledNames ==
    FullyInstalled
    \cup {n \in PartiallyInstalled :
            InstalledPkgsFor(n)
            \ UNION {InstalledPkgsFor(o) :
                        o \in (FullyInstalled \cup PartiallyInstalled) \ {n}}
            # {}}

\* analyzeInstalledPkgs(): PKGDATA['pkg_references']
InitialPkgReferences ==
    [pkg \in UNION {InstalledPkgsFor(n) : n \in InstalledNames} |->
        {n \in InstalledNames : pkg \in InstalledPkgsFor(n)}]

\* getReceiptsToRemove(item)
getReceiptsToRemove(item) == SetToList(InstalledPkgsFor(item.name))

\* evidenceThisIsInstalled(item_pl); the path of a descriptor exists when its
\* comparison is not 0
evidenceThisIsInstalled(item_pl) ==
    \/ /\ item_pl.installs # <<>>
       /\ item_pl.uninstall_method # "removepackages"
       /\ \A i \in 1..Len(item_pl.installs) :
             item_pl.installs[i].malformed \/ item_pl.installs[i].result # 0
    \/ /\ item_pl.receipts # <<>>
       /\ item_pl.name \in InstalledNames

\* ------------------------------------------------------------------------
\* Removals
\* ------------------------------------------------------------------------
\* itemlist.sort(compare_item_versions): newest version first
RECURSIVE SortItemsNewestFirst(_)
RECURSIVE NewestThenRest(_, _)
SortItemsNewestFirst(items) ==
    IF items = {} THEN <<>>
    ELSE NewestThenRest(
             CHOOSE a \in items :
                 \A b \in items :
                     MunkiLooseVersionCmp(a.version, b.version) >= 0,
             items)

NewestThenRest(top, items) == <<top>> \o SortItemsNewestFirst(items \ {top})

\* getAllItemsWithName(name, cataloglist)
getAllItemsWithName(name, cataloglist) ==
    SortItemsNewestFirst(
        UNION {IF CatalogLoaded(cataloglist[c])
               THEN {it \in Range(CATALOG[cataloglist[c]]) :
                        it.name = nameAndVersion(name)[1]}
               ELSE {} : c \in 1..Len(cataloglist)})

\* the first item of infoitems with install evidence: <<item>> or <<>>
RECURSIVE FirstWithEvidence(_)
FirstWithEvidence(infoitems) ==
    IF infoitems = <<>> THEN <<>>
    ELSE IF evidenceThisIsInstalled(Head(infoitems)) THEN <<Head(infoitems)>>
    ELSE FirstWithEvidence(Tail(infoitems))

\* does the item have an uninstall method that can be used?
HasUninstallInfo(item) ==
    /\ item.uninstallable
    /\ item.uninstall_method # ""
    /\ \/ /\ item.uninstall_method = "removepackages"
          /\ getReceiptsToRemove(item) # <<>>
       \/ item.uninstall_method \in {"AdobeUberUninstaller",
                                     "remove_copied_items", "remove_app",
                                     "uninstall_script"}
       \/ item.uninstall_method \in MACHINE.executables

RemovalItemInfo(name, installed, item, packages, uninstaller_item) ==
    [name |-> name,
     installed |-> installed,
     installed_version |-> IF installed THEN item.version ELSE <<>>,
     uninstall_method |-> IF installed THEN item.uninstall_method ELSE "",
     packages |-> packages,
     uninstaller_item |-> uninstaller_item,
     requires |-> IF installed THEN item.requires ELSE <<>>,
     update_for |-> IF installed THEN item.update_for ELSE <<>>]

AppendRemoval(st, iteminfo) ==
    [st EXCEPT !.installinfo.removals = Append(@, iteminfo)]

\* the packages left without a reference once name lets go of them, in the
\* order of packagesToRemove
RECURSIVE ReallyRemove(_, _, _)
ReallyRemove(packagesToRemove, name, refs) ==
    IF packagesToRemove = <<>> THEN <<>>
    ELSE (IF /\ Head(packagesToRemove) \in DOMAIN refs
             /\ refs[Head(packagesToRemove)] \ {name} = {}
          THEN <<Head(packagesToRemove)>> ELSE <<>>)
         \o ReallyRemove(Tail(packagesToRemove), name, refs)

\* PKGDATA['pkg_references'][pkg].remove(name) for each pkg of the list
DropReferences(packagesToRemove, name, refs) ==
    [pkg \in DOMAIN refs |->
        IF InSeq(pkg, packagesToRemove) THEN refs[pkg] \ {name} ELSE refs[pkg]]

\* list.remove(name) raises ValueError when name is not in the list
DropRaises(packagesToRemove, name, refs) ==
    \E i \in 1..Len(packagesToRemove) :
        /\ packagesToRemove[i] \in DOMAIN refs
        /\ name \notin refs[packagesToRemove[i]]

RECURSIVE processRemoval(_, _, _, _)
RECURSIVE RemoveEach(_, _, _, _)
RECURSIVE ScanCatalogForDependents(_, _, _, _, _, _)
RECURSIVE DependentRemoved(_, _, _, _, _, _, _)
RECURSIVE ScanCatalogsForDependents(_, _, _, _, _, _, _)
RECURSIVE ScannedCatalog(_, _, _, _, _, _)

\* for update_item in update_list: processRemoval(update_item, ...)
RemoveEach(items, cataloglist, st, depth) ==
    IF items = <<>> \/ st.exc # "" THEN st
    ELSE RemoveEach(Tail(items), cataloglist,
                    processRemoval(Head(items), cataloglist, st, depth + 1),
                    depth)

\* the inner loop over the items of one catalog file; it breaks at the first
\* dependent that cannot be removed
ScanCatalogForDependents(items, targets, cataloglist, processednames, st, depth) ==
    IF items = <<>> \/ st.exc # ""
    THEN [st |-> st, processednames |-> processednames, removed |-> TRUE]
    ELSE IF ~(/\ Head(items).name \notin processednames
              /\ Range(Head(items).requires) \cap targets # {}
              /\ evidenceThisIsInstalled(Head(items)))
    THEN ScanCatalogForDependents(Tail(items), targets, cataloglist,
             processednames \cup {Head(items).name}, st, depth)
    ELSE DependentRemoved(items, targets, cataloglist, processednames,
             processRemoval(Head(items).name, cataloglist, st, depth + 1),
             depth, st)

\* the inner loop after processRemoval of the dependent Head(items)
DependentRemoved(items, targets, cataloglist, processednames, after, depth, st) ==
    IF after.exc # "" \/ ~after.ret
    THEN [st |-> after, processednames |-> processednames,
          removed |-> FALSE]
    ELSE ScanCatalogForDependents(Tail(items), targets, cataloglist,
             processednames \cup {Head(items).name}, after, depth)

\* the outer loop over cataloglist
ScanCatalogsForDependents(catalognames, targets, cataloglist, processednames, st, depth, removed) ==
    IF catalognames = <<>> \/ st.exc # ""
    THEN [st |-> st, removed |-> removed]
    ELSE ScannedCatalog(catalognames, targets, cataloglist,
             ScanCatalogForDependents(
                 IF CatalogLoaded(Head(catalognames))
                 THEN CATALOG[Head(catalognames)] ELSE <<>>,
                 targets, cataloglist, processednames, st, depth),
             depth, removed)

ScannedCatalog(catalognames, targets, cataloglist, scan, depth, removed) ==
    ScanCatalogsForDependents(Tail(catalognames), targets, cataloglist,
        scan.processednames, scan.st, depth, removed /\ scan.removed)

\* the end of processRemoval: the updates have been removed
RemoveUpdated(manifestitem, item, packagesToReallyRemove, pre, st) ==
    IF st.exc # "" THEN st
    ELSE Return("processRemoval", manifestitem, <<item>>, TRUE, pre,
             AppendRemoval(st,
                 RemovalItemInfo(item.name, TRUE, item,
                     packagesToReallyRemove,
                     IF /\ item.uninstall_method = "AdobeUberUninstaller"
                        /\ ~item.adobe_install_info
                     THEN (IF item.uninstaller_item_location # ""
                           THEN item.uninstaller_item_location
                           ELSE item.installer_item_location)
                     ELSE "")))

\* the outcome of fetching the Adobe uninstaller payload
UninstallerOutcome(item, installlist) ==
    IF item.uninstaller_item_location = ""
    THEN download_installeritem(item, installlist)
    ELSE IF /\ item.uninstaller_item_location \notin MACHINE.cache
            /\ ~enoughDiskSpace(item, installlist)
    THEN "InsufficientDiskSpace"
    ELSE fetchres[item.uninstaller_item_location]

\* a variant of RemoveReferenced that appends the record of the item before
\* it removes the updates
RemovalReturned(manifestitem, item, pre, st) ==
    IF st.exc # "" THEN st
    ELSE Return("processRemoval", manifestitem, <<item>>, TRUE, pre, st)

RemoveReferencedRecordingFirst(manifestitem, item, packagesToRemove, packagesToReallyRemove, cataloglist, pre, st, depth) ==
    IF packagesToRemove # <<>> /\ packagesToReallyRemove = <<>>
    THEN Return("processRemoval", manifestitem, <<item>>, FALSE, pre, st)
    ELSE RemovalReturned(manifestitem, item, pre,
             RemoveEach(lookForUpdates(item.name, cataloglist),
                        cataloglist,
                        AppendRemoval(st,
                            RemovalItemInfo(item.name, TRUE, item,
                                            packagesToReallyRemove, "")),
                        depth))

\* processRemoval once the references of the packages have been dropped
RemoveReferenced(manifestitem, item, packagesToRemove, packagesToReallyRemove, cataloglist, pre, st, depth) ==
    IF packagesToRemove # <<>> /\ packagesToReallyRemove = <<>>
    THEN Return("processRemoval", manifestitem, <<item>>, FALSE, pre, st)
    ELSE IF /\ item.uninstall_method = "AdobeUberUninstaller"
            /\ ~item.adobe_install_info
            /\ UninstallerOutcome(item, st.installinfo.managed_installs)
                  \in DownloadErrors
    THEN Return("processRemoval", manifestitem, <<item>>, FALSE, pre, st)
    ELSE RemoveUpdated(manifestitem, item, packagesToReallyRemove, pre,
             RemoveEach(lookForUpdates(item.name, cataloglist)
                        \o lookForUpdates(
                               NameDashVersion(item.name, item.version),
                               cataloglist)
                        \o lookForUpdates(
                               NameDashDashVersion(item.name, item.version),
                               cataloglist),
                        cataloglist, st, depth))

\* processRemoval after the search for dependent items
RemoveDependents(manifestitem, item, packagesToRemove, dependents, cataloglist, pre, depth) ==
    IF dependents.st.exc # "" THEN dependents.st
    ELSE IF ~dependents.removed
    THEN Return("processRemoval", manifestitem, <<item>>, FALSE, pre,
                dependents.st)
    ELSE IF DropRaises(packagesToRemove, item.name,
                       dependents.st.pkg_references)
    THEN Raise("ValueError", dependents.st)
    ELSE RemoveReferenced(manifestitem, item, packagesToRemove,
             ReallyRemove(packagesToRemove, item.name,
                          dependents.st.pkg_references),
             cataloglist, pre,
             [dependents.st EXCEPT !.pkg_references =
                  DropReferences(packagesToRemove, item.name, @)],
             depth)

\* processRemoval from the point where uninstall_item is known
RemoveInstalled(manifestitem, item, cataloglist, pre, st, depth) ==
    RemoveDependents(manifestitem, item,
        IF item.uninstall_method = "removepackages"
        THEN getReceiptsToRemove(item) ELSE <<>>,
        ScanCatalogsForDependents(cataloglist,
            {item.name, NameDashVersion(item.name, item.version),
             NameDashDashVersion(item.name, item.version)},
            cataloglist, {}, st, depth, TRUE),
        cataloglist, pre, depth)

\* processRemoval from the item with evidence of being installed on
RemoveEvidence(manifestitem, manifestitemname, infoitems, evidence, cataloglist, pre, marked, depth) ==
    IF evidence = <<>>
    THEN Return("processRemoval", manifestitem, <<>>, TRUE, pre,
             AppendRemoval(marked,
                 RemovalItemInfo(manifestitemname, FALSE, infoitems[1],
                                 <<>>, "")))
    ELSE IF ~HasUninstallInfo(evidence[1])
    THEN Return("processRemoval", manifestitem, evidence, FALSE, pre, marked)
    ELSE RemoveInstalled(manifestitem, evidence[1], cataloglist, pre, marked,
                         depth)

\* processRemoval from infoitems on, the name being in processed_uninstalls
RemoveInfoItems(manifestitem, manifestitemname, infoitems, cataloglist, pre, marked, depth) ==
    IF infoitems = <<>>
    THEN Return("processRemoval", manifestitem, <<>>, FALSE, pre, marked)
    ELSE RemoveEvidence(manifestitem, manifestitemname, infoitems,
                        FirstWithEvidence(infoitems), cataloglist, pre,
                        marked, depth)

\* a variant of RemoveNamed that looks in processed_installs for the name as
\* the manifest gives it, without stripping versions
RemoveNamedExactName(manifestitem, nv, cataloglist, st, depth) ==
    IF InSeq(manifestitem, st.installinfo.processed_installs)
    THEN Return("processRemoval", manifestitem, <<>>, FALSE, st.installinfo,
                st)
    ELSE IF InSeq(nv[1], st.installinfo.processed_uninstalls)
    THEN Return("processRemoval", manifestitem, <<>>, TRUE, st.installinfo,
                st)
    ELSE RemoveInfoItems(manifestitem, nv[1],
             IF nv[2] # <<>>
             THEN getItemDetail(nv[1], cataloglist, nv[2])
             ELSE getAllItemsWithName(nv[1], cataloglist),
             cataloglist, st.installinfo,
             [st EXCEPT !.installinfo.processed_uninstalls =
                            Append(@, nv[1])],
             depth)

\* processRemoval with nv = nameAndVersion(manifestitemname_withversion)
RemoveNamed(manifestitem, nv, cataloglist, st, depth) ==
    IF \E i \in 1..Len(st.installinfo.processed_installs) :
          nameAndVersion(st.installinfo.processed_installs[i])[1] = nv[1]
    THEN Return("processRemoval", manifestitem, <<>>, FALSE, st.installinfo,
                st)
    ELSE IF InSeq(nv[1], st.installinfo.processed_uninstalls)
    THEN Return("processRemoval", manifestitem, <<>>, TRUE, st.installinfo,
                st)
    ELSE RemoveInfoItems(manifestitem, nv[1],
             IF nv[2] # <<>>
             THEN getItemDetail(nv[1], cataloglist, nv[2])
             ELSE getAllItemsWithName(nv[1], cataloglist),
             cataloglist, st.installinfo,
             [st EXCEPT !.installinfo.processed_uninstalls =
                            Append(@, nv[1])],
             depth)

\* processRemoval(manifestitem, cataloglist, installinfo)
processRemoval(manifestitem, cataloglist, st, depth) ==
    IF depth > RecursionLimit THEN Raise("RuntimeError", st)
    ELSE IF nameAndVersionRaises(manifestitem) THEN Raise("IndexError", st)
    ELSE RemoveNamed(manifestitem, nameAndVersion(manifestitem), cataloglist,
                     st, depth)

\* getAutoRemovalItems without its filter on processed_installs
getAutoRemovalItemsKeepingInstalls(ii, cataloglist) ==
    {n \in UNION {IF CatalogLoaded(cataloglist[c])
                  THEN {it.name : it \in {x \in Range(CATALOG[cataloglist[c]]) :
                                             x.autoremove}}
                  ELSE {} : c \in 1..Len(cataloglist)} :
        ~InSeq(n, ii.processed_uninstalls)}

\* getAutoRemovalItems(installinfo, cataloglist)
getAutoRemovalItems(ii, cataloglist) ==
    LET autoremovalnames ==
            UNION {IF CatalogLoaded(cataloglist[c])
                   THEN {it.name : it \in {x \in Range(CATALOG[cataloglist[c]]) :
                                              x.autoremove}}
                   ELSE {} : c \in 1..Len(cataloglist)}
        processed_installs_names ==
            {nameAndVersion(ii.processed_installs[i])[1] :
                i \in 1..Len(ii.processed_installs)}
    IN  {n \in autoremovalnames :
            /\ n \notin processed_installs_names
            /\ ~InSeq(n, ii.processed_uninstalls)}

\* ------------------------------------------------------------------------
\* Catalogs, manifests and machines of the model
\* ------------------------------------------------------------------------
sA == <<"A">>
sB == <<"B">>
sU == <<"U">>
sM == <<"M">>
sA2 == <<"A", "-", "2">>
v1 == <<"1">>
v2 == <<"2">>
v3 == <<"3">>

Descriptor(result) == [result |-> result, malformed |-> FALSE]

PkgInfo(name, version, requires, update_for, result, location) ==
    [name |-> name, version |-> version,
     requires |-> requires, update_for |-> update_for,
     installs |-> <<Descriptor(result)>>, receipts |-> <<>>,
     softwareupdatename |-> <<>>, disk_version |-> <<>>,
     installer_item_location |-> location,
     uninstaller_item_location |-> "",
     installer_item_size |-> 0, installed_size |-> -1,
     uninstallable |-> TRUE, uninstall_method |-> "remove_app",
     adobe_install_info |-> FALSE, autoremove |-> FALSE,
     minimum_os_version |-> <<>>, maximum_os_version |-> <<>>,
     has_supported_architectures |-> FALSE,
     supported_architectures |-> <<>>]

\* what a scenario varies; the first value of each set is the default
Requires_A == <<<< >>, <<sB>>, <<sM>>, <<sA>>>>
Requires_B == <<<< >>, <<sM>>, <<sA>>>>
Requires_U == <<<< >>, <<sA>>>>
Result_A == <<0, -1, 1>>
Result_B == <<0, 1>>
Result_U == <<0, 1, 1>>
Uninstallable_U == <<TRUE, TRUE, FALSE>>
Failing == <<"", "A-2.dmg", "B-1.dmg">>
CatalogLists == <<<<"production">>, <<"testing", "production">>>>

ScenarioSpace ==
    [reqA : 1..4, reqB : 1..3, reqU : 1..2, resA : 1..3, resB : 1..2,
     failing : 1..3, cats : 1..2, insU : 1..3]

Deviations(sc) ==
    Cardinality({f \in DOMAIN sc : sc[f] # 1})

\* the scenarios that differ from the default one in at most MaxDeviations
\* places
MaxDeviations == 2

Scenarios == {sc \in ScenarioSpace : Deviations(sc) <= MaxDeviations}

CatalogsOf(sc) ==
    [c \in {"production", "testing"} |->
        IF c = "production"
        THEN <<PkgInfo(sA, v2, Requires_A[sc.reqA], <<>>, Result_A[sc.resA],
                       "A-2.dmg"),
               PkgInfo(sB, v1, Requires_B[sc.reqB], <<>>, Result_B[sc.resB],
                       "B-1.dmg"),
               [PkgInfo(sU, v1, Requires_U[sc.reqU], <<sB>>,
                        Result_U[sc.insU], "U-1.dmg")
                   EXCEPT !.autoremove = TRUE,
                          !.uninstallable = Uninstallable_U[sc.insU]]>>
        ELSE <<PkgInfo(sA, v3, <<>>, <<>>, 0, "A-3.dmg")>>]

FetchOf(sc) ==
    [loc \in {"A-2.dmg", "A-3.dmg", "B-1.dmg", "U-1.dmg"} |->
        IF loc = Failing[sc.failing]
        THEN (IF loc = "A-2.dmg" THEN "PackageVerificationError"
              ELSE "CurlDownloadError")
        ELSE "downloaded"]

\* the names a manifest may list
ManifestNames == {sA, sB, sA2, sM}

EmptyInstallInfo ==
    [processed_installs |-> <<>>, processed_uninstalls |-> <<>>,
     managed_updates |-> <<>>, optional_installs |-> <<>>,
     managed_installs |-> <<>>, removals |-> <<>>]

\* the machine facts getMachineFacts() collects
ThisMachine ==
    [os_vers |-> <<"1", "0", ".", "8">>, arch |-> "x86_64",
     installedpkgs |-> << >>, appleupdates |-> {},
     executables |-> {}, cache |-> {},
     availablediskspace |-> 1000000]

\* ------------------------------------------------------------------------
\* check(): one run, pass by pass
\* ------------------------------------------------------------------------
Init ==
    /\ \E sc \in Scenarios :
          /\ CATALOG = CatalogsOf(sc)
          /\ fetchres = FetchOf(sc)
          /\ maincatalogs = CatalogLists[sc.cats]
    /\ MACHINE = ThisMachine
    /\ installinfo = EmptyInstallInfo
    /\ pkg_references = InitialPkgReferences
    /\ pc = "managed_installs"
    /\ entries = 0
    /\ dispatched = <<>>
    /\ calls = <<>>
    /\ failedInstalls = {}
    /\ args = <<>>
    /\ returned = <<>>
    /\ stop = FALSE
    /\ installinfo_plist = <<>>

\* the record the resolver threads through one dispatch
Entering ==
    [installinfo |-> installinfo, pkg_references |-> pkg_references,
     calls |-> <<>>, failedInstalls |-> failedInstalls, ret |-> TRUE,
     exc |-> ""]

\* the state after a dispatch that ended in st; an exception nobody catches
\* ends the run
Dispatched(key, item, st) ==
    /\ installinfo' = st.installinfo
    /\ pkg_references' = st.pkg_references
    /\ calls' = st.calls
    /\ failedInstalls' = st.failedInstalls
    /\ pc' = IF st.exc # "" THEN "crashed" ELSE pc
    /\ entries' = entries + 1
    /\ dispatched' = <<key, item>>
    /\ UNCHANGED <<CATALOG, MACHINE, maincatalogs, fetchres, args, returned, stop, installinfo_plist>>

\* processManifestForKey(mainmanifestpath, 'managed_installs', installinfo):
\* one turn of its loop over the items
DispatchManagedInstall ==
    /\ pc = "managed_installs"
    /\ ~stop
    /\ entries < MaxEntries
    /\ \E item \in ManifestNames :
          Dispatched("managed_installs", item,
                     processInstall(item, maincatalogs, Entering, 1))

DispatchManagedUninstall ==
    /\ pc = "managed_uninstalls"
    /\ ~stop
    /\ entries < MaxEntries
    /\ \E item \in ManifestNames :
          Dispatched("managed_uninstalls", item,
                     processRemoval(item, maincatalogs, Entering, 1))

DispatchManagedUpdate ==
    /\ pc = "managed_updates"
    /\ ~stop
    /\ entries < MaxEntries
    /\ \E item \in ManifestNames :
          Dispatched("managed_updates", item,
                     processManagedUpdate(item, maincatalogs, Entering))

DispatchOptionalInstall ==
    /\ pc = "optional_installs"
    /\ ~stop
    /\ entries < MaxEntries
    /\ \E item \in ManifestNames :
          Dispatched("optional_installs", item,
                     processOptionalInstall(item, maincatalogs, Entering))

\* check(): the self-serve installs, were they not filtered
DispatchSelfServeInstallUnfiltered ==
    /\ pc = "selfserve_installs"
    /\ entries < MaxEntries
    /\ \E item \in ManifestNames :
          Dispatched("selfserve_installs", item,
                     processInstall(item, maincatalogs, Entering, 1))

\* check(): the self-serve installs, filtered against the optional installs
DispatchSelfServeInstall ==
    /\ pc = "selfserve_installs"
    /\ entries < MaxEntries
    /\ \E item \in ManifestNames :
          Dispatched("selfserve_installs", item,
              IF \E i \in 1..Len(installinfo.optional_installs) :
                    installinfo.optional_installs[i].name = item
              THEN processInstall(item, maincatalogs, Entering, 1)
              ELSE Entering)

DispatchSelfServeUninstall ==
    /\ pc = "selfserve_uninstalls"
    /\ ~stop
    /\ entries < MaxEntries
    /\ \E item \in ManifestNames :
          Dispatched("selfserve_uninstalls", item,
                     processRemoval(item, maincatalogs, Entering, 1))

\* the state after a pass that ended in st
Passed(st, next) ==
    /\ installinfo' = st.installinfo
    /\ pkg_references' = st.pkg_references
    /\ calls' = st.calls
    /\ failedInstalls' = st.failedInstalls
    /\ pc' = IF st.exc # "" THEN "crashed" ELSE next
    /\ dispatched' = <<>>
    /\ UNCHANGED <<CATALOG, MACHINE, maincatalogs, fetchres, entries, args,
                   returned, stop, installinfo_plist>>

\* check(): the implicit removals, all of them; a stop request is seen
\* before the first item and ends the run
ImplicitRemovals ==
    /\ pc = "implicit_removals"
    /\ IF stop /\ getAutoRemovalItems(installinfo, maincatalogs) # {}
       THEN Passed(Entering, "stopped")
       ELSE Passed(RemoveEach(
                       SetToList(getAutoRemovalItems(installinfo,
                                                     maincatalogs)),
                       maincatalogs, Entering, 0),
                   "managed_updates")

\* the end of the list of one key: check() returns 0 when a stop was
\* requested, and goes on with the next pass otherwise; the self-serve
\* installs are not followed by that test
NextPass ==
    /\ pc \in {"managed_installs", "managed_uninstalls", "managed_updates",
               "optional_installs", "selfserve_installs"}
    /\ pc' \in CASE pc = "selfserve_installs" -> {"selfserve_uninstalls"}
                 [] stop -> {"stopped"}
                 [] pc = "managed_installs" -> {"managed_uninstalls"}
                 [] pc = "managed_uninstalls" -> {"implicit_removals"}
                 [] pc = "managed_updates" -> {"optional_installs"}
                 [] pc = "optional_installs" ->
                        {"selfserve_installs", "filter"}
    /\ calls' = <<>>
    /\ dispatched' = <<>>
    /\ UNCHANGED <<CATALOG, MACHINE, maincatalogs, fetchres, installinfo,
                   pkg_references, entries, failedInstalls, args, returned, stop, installinfo_plist>>

\* check(): will_be_installed / will_be_removed of the optional installs,
\* after the self-serve manifest
MarkOptionalInstalls ==
    /\ pc = "selfserve_uninstalls"
    /\ installinfo' =
          [installinfo EXCEPT !.optional_installs =
              [i \in 1..Len(@) |->
                  IF /\ ~@[i].installed
                     /\ isItemInInstallInfo(@[i], installinfo.managed_installs,
                                            <<>>)
                  THEN [@[i] EXCEPT !.will_be_installed = TRUE]
                  ELSE IF /\ @[i].installed
                          /\ isItemInInstallInfo(@[i], installinfo.removals,
                                                 <<>>)
                  THEN [@[i] EXCEPT !.will_be_removed = TRUE]
                  ELSE @[i]]]
    /\ pc' = "filter"
    /\ calls' = <<>>
    /\ dispatched' = <<>>
    /\ UNCHANGED <<CATALOG, MACHINE, maincatalogs, fetchres, pkg_references,
                   entries, failedInstalls, args, returned, stop, installinfo_plist>>

NeedsAction(item) == item.installer_item # ""
StillInstalled(item) == item.installed

\* check(): managed_installs and removals keep only the items that need
\* action
FilterLists ==
    /\ pc = "filter"
    /\ installinfo' =
          [installinfo EXCEPT
              !.managed_installs = SelectSeq(@, NeedsAction),
              !.removals = SelectSeq(@, StillInstalled)]
    /\ pc' = "write"
    /\ calls' = <<>>
    /\ dispatched' = <<>>
    /\ UNCHANGED <<CATALOG, MACHINE, maincatalogs, fetchres, pkg_references,
                   entries, failedInstalls, args, returned, stop, installinfo_plist>>

\* check(): InstallInfo.plist is written when it differs from what is stored
WriteInstallInfo ==
    /\ pc = "write"
    /\ installinfo_plist' = <<installinfo>>
    /\ pc' = "done"
    /\ UNCHANGED <<CATALOG, MACHINE, maincatalogs, fetchres, installinfo,
                   pkg_references, entries, dispatched, calls, failedInstalls,
                   args, returned, stop>>

\* a stop is requested while check() runs
RequestStop ==
    /\ pc \in {"managed_installs", "managed_uninstalls", "implicit_removals",
               "managed_updates", "optional_installs", "selfserve_installs",
               "selfserve_uninstalls", "filter", "write"}
    /\ ~stop
    /\ stop' = TRUE
    /\ UNCHANGED <<CATALOG, MACHINE, maincatalogs, fetchres, installinfo,
                   pkg_references, pc, entries, dispatched, calls,
                   failedInstalls, args, returned, installinfo_plist>>

Next ==
    \/ DispatchManagedInstall
    \/ DispatchManagedUninstall
    \/ ImplicitRemovals
    \/ DispatchManagedUpdate
    \/ DispatchOptionalInstall
    \/ DispatchSelfServeInstall
    \/ DispatchSelfServeUninstall
    \/ NextPass
    \/ MarkOptionalInstalls
    \/ FilterLists
    \/ WriteInstallInfo
    \/ RequestStop

Spec == Init /\ [][Next]_vars

\* ------------------------------------------------------------------------
\* Properties of the resolver
\* ------------------------------------------------------------------------
\* names of the records of a list of installinfo
RecordNames(thelist) == {thelist[i].name : i \in 1..Len(thelist)}

\* the names of a list of manifest names, versions stripped
BaseNames(names) == {nameAndVersion(names[i])[1] : i \in 1..Len(names)}

\* number of records of thelist called name
CountNamed(thelist, name) ==
    Cardinality({i \in 1..Len(thelist) : thelist[i].name = name})

\* the passes of check() that call processInstall for a manifest entry
InstallPasses == {"managed_installs", "managed_updates", "selfserve_installs"}

\* c is a call of processInstall that resolved an item one of whose
\* prerequisites no catalog of the run resolves
MissingPrerequisite(c) ==
    /\ c.fn = "processInstall"
    /\ c.item_pl # <<>>
    /\ \E k \in 1..Len(c.item_pl[1].requires) :
          getItemDetail(c.item_pl[1].requires[k], maincatalogs, <<>>) = <<>>

\* C1: when processInstall is called for an item A with a prerequisite that
\* resolves to no item in any catalog, then once the call has returned there
\* is no record for A in managed_installs, A is not in processed_installs,
\* and the run goes on with the other entries (it has not stopped).
C1_MissingPrerequisiteLeavesNoTrace ==
    \A i \in 1..Len(calls) :
        MissingPrerequisite(calls[i]) =>
            /\ calls[i].item_pl[1].name
                   \notin RecordNames(calls[i].post.managed_installs)
            /\ ~InSeq(calls[i].item, calls[i].post.processed_installs)
            /\ pc # "crashed"

\* item_pl has no requires, no update_for, and nothing is an update for it
NoRelations(item_pl) ==
    /\ item_pl.requires = <<>>
    /\ item_pl.update_for = <<>>
    /\ lookForUpdates(item_pl.name, maincatalogs) = <<>>
    /\ lookForUpdatesForVersion(item_pl.name, item_pl.version, maincatalogs)
           = <<>>

\* the entry dispatched last made check() call processInstall on it, for an
\* item without relations, and the call succeeded or recorded a failure
FirstCallMade ==
    /\ pc # "crashed"
    /\ dispatched # <<>>
    /\ dispatched[1] \in InstallPasses
    /\ calls # <<>>
    /\ calls[Len(calls)].fn = "processInstall"
    /\ calls[Len(calls)].item = dispatched[2]
    /\ calls[Len(calls)].item_pl # <<>>
    /\ NoRelations(calls[Len(calls)].item_pl[1])
    /\ calls[Len(calls)].ret \/ calls[Len(calls)].fetcherror # ""

\* what a second call of processInstall on the entry dispatched last makes
\* of the present state
SecondCall == processInstall(dispatched[2], maincatalogs, Entering, 1)

\* C2: for an item without requires and update_for relations, a second call
\* of processInstall with the same name and catalogs, right after the first,
\* returns True and leaves installinfo as the first call left it, whether
\* the name is a managed install or a managed update and whether the first
\* call succeeded or recorded a failure.
C2_SecondCallIdempotent ==
    FirstCallMade =>
        /\ SecondCall.exc = ""
        /\ SecondCall.ret
        /\ SecondCall.installinfo = installinfo

\* c is a call of processRemoval for a name whose base name is the base name
\* of an entry of processed_installs
RemovalOfProcessedInstall(c) ==
    /\ c.fn = "processRemoval"
    /\ nameAndVersion(c.item)[1] \in BaseNames(c.pre.processed_installs)

\* C3: processRemoval of a name whose base name is the base name of an entry
\* of processed_installs returns False, appends nothing to removals and does
\* not add the name to processed_uninstalls.
C3_RemovalRefusedAfterInstall ==
    \A i \in 1..Len(calls) :
        RemovalOfProcessedInstall(calls[i]) =>
            /\ ~calls[i].ret
            /\ calls[i].post.removals = calls[i].pre.removals
            /\ calls[i].post.processed_uninstalls
                   = calls[i].pre.processed_uninstalls

\* a removal was refused for an item that is installed and could be removed
C3_RefusedRemovalReached ==
    \E i \in 1..Len(calls) :
        /\ RemovalOfProcessedInstall(calls[i])
        /\ FirstWithEvidence(getAllItemsWithName(calls[i].item, maincatalogs))
               # <<>>

\* C4: in every state of a run, no base name is both in processed_installs
\* and in processed_uninstalls.
C4_InstallsAndUninstallsDisjoint ==
    BaseNames(installinfo.processed_installs)
    \cap BaseNames(installinfo.processed_uninstalls) = {}

\* both lists have entries at the end of a run in which an install was
\* refused because of processed_uninstalls
C4_BothListsReached ==
    /\ pc = "done"
    /\ installinfo.processed_installs # <<>>
    /\ installinfo.processed_uninstalls # <<>>
    /\ \E n \in failedInstalls :
          InSeq(nameAndVersion(n)[1], installinfo.processed_uninstalls)

\* C5: at the end of a check run no item name has both a record in
\* managed_installs and a record in removals.
C5_NeverInstalledAndRemoved ==
    pc = "done" =>
        RecordNames(installinfo.managed_installs)
        \cap RecordNames(installinfo.removals) = {}

\* c is a call of processInstall for a name whose base name is in
\* processed_uninstalls
InstallOfProcessedUninstall(c) ==
    /\ c.fn = "processInstall"
    /\ InSeq(nameAndVersion(c.item)[1], c.pre.processed_uninstalls)

\* C6: processInstall of a name whose base name is in processed_uninstalls
\* returns False, appends no record to managed_installs and does not add the
\* name to processed_installs, for the entries of the manifests as for the
\* names reached through requires and update_for.
C6_InstallRefusedAfterRemoval ==
    \A i \in 1..Len(calls) :
        InstallOfProcessedUninstall(calls[i]) =>
            /\ ~calls[i].ret
            /\ calls[i].post.managed_installs = calls[i].pre.managed_installs
            /\ calls[i].post.processed_installs
                   = calls[i].pre.processed_installs

\* an install was refused for a name reached from another item, and an
\* install was refused for a manifest entry
C6_RefusedInstallReached ==
    /\ dispatched # <<>>
    /\ dispatched[1] \in InstallPasses
    /\ \E i \in 1..Len(calls) :
          /\ InstallOfProcessedUninstall(calls[i])
          /\ i < Len(calls)
          /\ calls[i].item # dispatched[2]

\* the names the items called name require, versions stripped
RequiredBy(name) ==
    UNION {BaseNames(item.requires) :
              item \in {it \in AllCatalogItems : it.name = name}}

\* the names reached from the names of S through requires, in at most k steps
RECURSIVE RequiresClosure(_, _)
RequiresClosure(S, k) ==
    IF k = 0 THEN S
    ELSE RequiresClosure(S \cup UNION {RequiredBy(n) : n \in S}, k - 1)

\* no item of the catalogs requires itself, directly or through other items
AcyclicRequires ==
    \A item \in AllCatalogItems :
        item.name \notin RequiresClosure(RequiredBy(item.name),
                                         Cardinality(AllCatalogItems))

\* C7: in managed_installs every record comes after the records of the
\* names its requires lists, whenever those have a record; stated for the
\* catalogs whose requires have no cycle, update_for relations being free to
\* point back into the requires chain.
C7_PrerequisitesRecordedFirst ==
    AcyclicRequires =>
        \A j \in 1..Len(installinfo.managed_installs) :
            \A p \in BaseNames(installinfo.managed_installs[j].requires) :
                p \in RecordNames(installinfo.managed_installs) =>
                    \E i \in 1..(j - 1) :
                        installinfo.managed_installs[i].name = p

\* C8: when the resolution of a name in the requires of item A has failed
\* at some point of the run, before the call for A or during it, then
\* processInstall of A returns False and appends no record for A.
C8_FailedPrerequisiteFailsItem ==
    \A i \in 1..Len(calls) :
        (/\ calls[i].fn = "processInstall"
         /\ calls[i].item_pl # <<>>
         /\ \E k \in 1..Len(calls[i].item_pl[1].requires) :
               calls[i].item_pl[1].requires[k] \in calls[i].failedBefore)
        => /\ ~calls[i].ret
           /\ CountNamed(calls[i].post.managed_installs,
                         calls[i].item_pl[1].name)
                  = CountNamed(calls[i].pre.managed_installs,
                               calls[i].item_pl[1].name)

\* C9: managed_installs never holds two records with the same item name,
\* in any state of a run that no exception has stopped.
C9_ManagedInstallsDeduplicated ==
    pc # "crashed" =>
        \A i, j \in 1..Len(installinfo.managed_installs) :
            i # j =>
                installinfo.managed_installs[i].name
                    # installinfo.managed_installs[j].name

\* C10: when the payload fetch of an item that needs installing raises an
\* integrity-check or download error, the call appends exactly one record
\* for the item, with installed False, a note and no payload reference, and
\* returns False; when the call was made for a manifest entry, check() stays
\* in the pass it is in, to go on with the next entry.
C10_FetchErrorRecordedOnce ==
    \A i \in 1..Len(calls) :
        calls[i].fetcherror # "" =>
            /\ ~calls[i].ret
            /\ Len(calls[i].post.managed_installs) = calls[i].atfetch + 1
            /\ LET iteminfo == calls[i].post.managed_installs[
                                   Len(calls[i].post.managed_installs)]
               IN  /\ iteminfo.name = calls[i].item_pl[1].name
                   /\ ~iteminfo.installed
                   /\ iteminfo.note # ""
                   /\ iteminfo.installer_item = ""
                   /\ iteminfo.version_to_install = <<>>
            /\ (i = Len(calls) /\ dispatched # <<>>) => pc = dispatched[1]

\* a manifest entry whose payload failed its integrity check was dispatched,
\* after an entry that succeeded
C10_FetchErrorReached ==
    /\ dispatched # <<>>
    /\ dispatched[1] = "managed_installs"
    /\ calls # <<>>
    /\ calls[Len(calls)].fetcherror = "PackageVerificationError"
    /\ calls[Len(calls)].item = dispatched[2]
    /\ calls[Len(calls)].pre.managed_installs # <<>>

\* ------------------------------------------------------------------------
\* The implicit-removal pass
\* ------------------------------------------------------------------------
\* the names flagged autoremove in the catalogs of the main manifest
AutoRemoveNames ==
    UNION {IF CatalogLoaded(maincatalogs[c])
           THEN {it.name : it \in {x \in Range(CATALOG[maincatalogs[c]]) :
                                      x.autoremove}}
           ELSE {} : c \in 1..Len(maincatalogs)}

\* the item processRemoval would act on for name: <<item>> or <<>>
RemovalTarget(name) ==
    FirstWithEvidence(getAllItemsWithName(name, maincatalogs))

\* some installed item of the catalogs requires the item
HasInstalledDependent(item) ==
    \E c \in 1..Len(maincatalogs) :
        /\ CatalogLoaded(maincatalogs[c])
        /\ \E d \in Range(CATALOG[maincatalogs[c]]) :
              /\ Range(d.requires)
                    \cap {item.name, NameDashVersion(item.name, item.version),
                          NameDashDashVersion(item.name, item.version)} # {}
              /\ evidenceThisIsInstalled(d)

\* name is an autoremove name, installed, that neither list of processed
\* names holds when the implicit-removal pass starts
UnreferencedInstalled(name) ==
    /\ name \in AutoRemoveNames
    /\ name \notin BaseNames(installinfo.processed_installs)
    /\ name \notin BaseNames(installinfo.processed_uninstalls)
    /\ RemovalTarget(name) # <<>>

HasInstalledRemoval(removals, name) ==
    \E i \in 1..Len(removals) :
        removals[i].name = name /\ removals[i].installed

\* no call of the list is a processRemoval of an autoremove name whose base
\* name was in processed_installs at its entry
NoKeptNameRemoved(thecalls) ==
    \A i \in 1..Len(thecalls) :
        (/\ thecalls[i].fn = "processRemoval"
         /\ nameAndVersion(thecalls[i].item)[1] \in AutoRemoveNames)
        => nameAndVersion(thecalls[i].item)[1]
              \notin BaseNames(thecalls[i].pre.processed_installs)

ImplicitPassStep == pc = "implicit_removals" /\ pc' # "implicit_removals"

NoRun ==
    /\ MACHINE = ThisMachine
    /\ maincatalogs = <<>>
    /\ fetchres = << >>
    /\ pkg_references = << >>
    /\ pc = "idle"
    /\ entries = 0
    /\ dispatched = <<>>
    /\ calls = <<>>
    /\ failedInstalls = {}
    /\ stop = FALSE

\* ------------------------------------------------------------------------
\* getItemDetail(name, cataloglist) on one catalog with several versions
\* ------------------------------------------------------------------------
MaxVersions == 3

VersionPool ==
    {<<"1", ".", "0">>, <<"2", ".", "0">>, <<"1", ".", "1", "0">>,
     <<"1", ".", "9">>, <<"2", ".", "0", ".", "0">>, <<"2", ".", "0", "a">>}

\* the catalogs: up to MaxVersions items named A, in every order, followed
\* by an item of another name
VersionLists == UNION {[1..n -> VersionPool] : n \in 1..MaxVersions}

CatalogOfVersions(versions) ==
    [i \in 1..Len(versions) |->
        PkgInfo(sA, versions[i], <<>>, <<>>, 0, "A.dmg")]
    \o <<PkgInfo(sB, <<"9", ".", "0">>, <<>>, <<>>, 0, "B.dmg")>>

InitResolve ==
    /\ NoRun
    /\ installinfo = EmptyInstallInfo
    /\ installinfo_plist = <<>>
    /\ \E versions \in VersionLists :
          CATALOG = [production |-> CatalogOfVersions(versions)]
    /\ args = [fn |-> "getItemDetail", name |-> sA,
               cataloglist |-> <<"production">>, vers |-> <<>>]
    /\ returned = <<>>

CallGetItemDetail ==
    /\ args # <<>>
    /\ args.fn = "getItemDetail"
    /\ returned = <<>>
    /\ returned' = <<getItemDetail(args.name, args.cataloglist, args.vers)>>
    /\ UNCHANGED <<CATALOG, MACHINE, maincatalogs, fetchres, installinfo,
                   pkg_references, pc, entries, dispatched, calls,
                   failedInstalls, args, stop, installinfo_plist>>

NextResolve == CallGetItemDetail

SpecResolve == InitResolve /\ [][NextResolve]_vars

\* the items of the catalog with the name asked for
ItemsNamed(catalogname, name) ==
    {it \in Range(CATALOG[catalogname]) : it.name = name}

\* C12: with no version asked for and one catalog holding several eligible
\* versions of the name, getItemDetail returns an item of that name whose
\* version is the greatest of the catalog, whatever the order of the items.
C12_LatestVersionResolved ==
    (returned # <<>> /\ args.fn = "getItemDetail")
    => /\ returned[1] # <<>>
       /\ returned[1][1] \in ItemsNamed("production", args.name)
       /\ \A it \in ItemsNamed("production", args.name) :
             MunkiLooseVersionCmp(returned[1][1].version, it.version) >= 0

\* the call returned from a catalog that lists an older version before and
\* after the latest one
C12_LatestBetweenOlderReached ==
    /\ returned # <<>>
    /\ args.fn = "getItemDetail"
    /\ Len(CATALOG["production"]) = 4
    /\ CATALOG["production"][2].version = <<"2", ".", "0", "a">>
    /\ CATALOG["production"][1].version = <<"1", ".", "1", "0">>
    /\ CATALOG["production"][3].version = <<"1", ".", "9">>
    /\ returned[1][1].version = <<"2", ".", "0", "a">>

\* ------------------------------------------------------------------------
\* checkForceInstallPackages().  Dates are counted in hours;
\* force_install_after_date = 0 stands for a record without the key, and
\* RestartAction = "" for a record without that key.
\* ------------------------------------------------------------------------
FORCE_INSTALL_WARNING_HOURS == 4

MaxRecords == 2

Dates == {0, 9, 10, 14, 15}
Nows == {10}
UTCOffsets == {0 - 1, 0, 1}
RestartActions == {"", "RequireLogout", "RequireRestart", "RecommendRestart"}

InstallRecords ==
    [name : {sA}, force_install_after_date : Dates,
     RestartAction : RestartActions, unattended_install : BOOLEAN]

InstallRecordLists == UNION {[1..n -> InstallRecords] : n \in 0..MaxRecords}

\* discardTimeZoneFromDate(the_date): the date minus the local offset
discardTimeZoneFromDate(the_date, offset) == the_date - offset

\* now >= force_install_after_date, for a record that has the date
PastDeadline(install, now, offset) ==
    /\ install.force_install_after_date # 0
    /\ now >= discardTimeZoneFromDate(install.force_install_after_date, offset)

\* now_xhours >= force_install_after_date, for a record that has the date
WithinWarning(install, now, offset) ==
    /\ install.force_install_after_date # 0
    /\ now + FORCE_INSTALL_WARNING_HOURS
          >= discardTimeZoneFromDate(install.force_install_after_date, offset)

\* result after the 'if now >= force_install_after_date' block
ForcedResult(install) ==
    IF install.RestartAction = "RequireLogout" THEN "logout"
    ELSE IF install.RestartAction = "RequireRestart" THEN "restart"
    ELSE "now"

\* SetsUnattended without its test of the flag the record has
SetsUnattendedAgain(install, now, offset) ==
    /\ PastDeadline(install, now, offset)
    /\ install.RestartAction = ""

\* SetsUnattended, were a recommended restart no obstacle
SetsUnattendedUnlessRequired(install, now, offset) ==
    /\ PastDeadline(install, now, offset)
    /\ install.RestartAction \in {"", "RecommendRestart"}
    /\ ~install.unattended_install

\* the record is given unattended_install by this call
SetsUnattended(install, now, offset) ==
    /\ PastDeadline(install, now, offset)
    /\ install.RestartAction = ""
    /\ ~install.unattended_install

\* one turn of the loop over managed_installs, on record i
ForceInstallStep(acc, i, now, offset) ==
    [result |->
        IF PastDeadline(acc.installs[i], now, offset)
        THEN ForcedResult(acc.installs[i])
        ELSE IF WithinWarning(acc.installs[i], now, offset)
                /\ acc.result = "None"
        THEN "soon"
        ELSE acc.result,
     installs |->
        IF SetsUnattended(acc.installs[i], now, offset)
        THEN [acc.installs EXCEPT ![i].unattended_install = TRUE]
        ELSE acc.installs,
     writeback |->
        acc.writeback \/ SetsUnattended(acc.installs[i], now, offset)]

RECURSIVE ForceInstallLoop(_, _, _, _)
ForceInstallLoop(acc, i, now, offset) ==
    IF i > Len(acc.installs) THEN acc
    ELSE ForceInstallLoop(ForceInstallStep(acc, i, now, offset), i + 1, now,
                          offset)

\* checkForceInstallPackages() on the InstallInfo.plist that holds plist
checkForceInstallPackages(plist, readable, now, offset) ==
    IF ~readable
    THEN [result |-> "None", installs |-> plist.managed_installs,
          writeback |-> FALSE]
    ELSE ForceInstallLoop([result |-> "None",
                           installs |-> plist.managed_installs,
                           writeback |-> FALSE], 1, now, offset)

InitForceInstall ==
    /\ NoRun
    /\ CATALOG = << >>
    /\ installinfo = EmptyInstallInfo
    /\ \E list \in InstallRecordLists :
          installinfo_plist = <<[managed_installs |-> list]>>
    /\ \E now \in Nows, offset \in UTCOffsets, readable \in BOOLEAN :
          args = [fn |-> "checkForceInstallPackages", now |-> now,
                  offset |-> offset, readable |-> readable]
    /\ returned = <<>>

\* the call; what it read is kept with what it returned
CallCheckForceInstallPackages ==
    /\ args # <<>>
    /\ args.fn = "checkForceInstallPackages"
    /\ returned = <<>>
    /\ \E out \in {checkForceInstallPackages(installinfo_plist[1],
                                             args.readable, args.now,
                                             args.offset)} :
          /\ returned' = <<[result |-> out.result,
                            writeback |-> out.writeback,
                            read |-> installinfo_plist[1].managed_installs]>>
          /\ installinfo_plist' =
                IF out.writeback
                THEN <<[installinfo_plist[1] EXCEPT
                           !.managed_installs = out.installs]>>
                ELSE installinfo_plist
    /\ UNCHANGED <<CATALOG, MACHINE, maincatalogs, fetchres, installinfo,
                   pkg_references, pc, entries, dispatched, calls,
                   failedInstalls, args, stop>>

NextForceInstall == CallCheckForceInstallPackages

SpecForceInstall == InitForceInstall /\ [][NextForceInstall]_vars

\* what one record of the list asks for on its own
Urgency(install, now, offset) ==
    IF PastDeadline(install, now, offset) THEN ForcedResult(install)
    ELSE IF WithinWarning(install, now, offset) THEN "soon"
    ELSE "None"

Urgencies(installs, now, offset) ==
    {Urgency(installs[i], now, offset) : i \in 1..Len(installs)}

ForceInstallReturned ==
    /\ returned # <<>>
    /\ args.fn = "checkForceInstallPackages"
    /\ args.readable

\* C13: checkForceInstallPackages returns the most urgent answer over all
\* the records of managed_installs, whatever their order: 'now' if a record
\* past its deadline asks for now, otherwise 'logout' or 'restart' if a
\* record past its deadline asks for it, otherwise 'soon' if a deadline lies
\* within the warning window, otherwise None.
C13_MostUrgentWins ==
    ForceInstallReturned
    => LET asked == Urgencies(returned[1].read, args.now, args.offset)
       IN  IF "now" \in asked THEN returned[1].result = "now"
           ELSE IF asked \cap {"logout", "restart"} # {}
           THEN returned[1].result \in asked \cap {"logout", "restart"}
           ELSE IF "soon" \in asked THEN returned[1].result = "soon"
           ELSE returned[1].result = "None"

\* the single record with a date of the list read, <<>> when there is not
\* exactly one
OnlyDated(installs) ==
    IF Cardinality({i \in 1..Len(installs) :
                       installs[i].force_install_after_date # 0}) = 1
    THEN <<CHOOSE i \in 1..Len(installs) :
               installs[i].force_install_after_date # 0>>
    ELSE <<>>

\* the only record with a deadline is past it and has no RestartAction
OnlyDeadlinePassed ==
    /\ ForceInstallReturned
    /\ OnlyDated(returned[1].read) # <<>>
    /\ PastDeadline(returned[1].read[OnlyDated(returned[1].read)[1]],
                    args.now, args.offset)
    /\ returned[1].read[OnlyDated(returned[1].read)[1]].RestartAction = ""

\* C14, as the claim states it: when the only record with a deadline is past
\* it and has no RestartAction, the call returns 'now', the record has
\* unattended_install = true afterwards, and InstallInfo is written back.
C14_PastDeadlineWrittenBack ==
    OnlyDeadlinePassed
    => /\ returned[1].result = "now"
       /\ installinfo_plist[1].managed_installs[OnlyDated(returned[1].read)[1]]
             .unattended_install
       /\ returned[1].writeback

\* C14, amended: the call returns 'now' and the record has
\* unattended_install = true afterwards; InstallInfo is written back exactly
\* when the record did not have the flag already, and nothing else of the
\* list changes.
C14_PastDeadlineMadeUnattended ==
    OnlyDeadlinePassed
    => /\ returned[1].result = "now"
       /\ installinfo_plist[1].managed_installs[OnlyDated(returned[1].read)[1]]
             .unattended_install
       /\ returned[1].writeback
             = ~returned[1].read[OnlyDated(returned[1].read)[1]]
                   .unattended_install
       /\ installinfo_plist[1].managed_installs
             = [returned[1].read EXCEPT
                   ![OnlyDated(returned[1].read)[1]].unattended_install = TRUE]

\* the call set the flag of the only record with a deadline and wrote the
\* list back
C14_FlagSetReached ==
    /\ OnlyDeadlinePassed
    /\ Len(returned[1].read) = 2
    /\ ~returned[1].read[OnlyDated(returned[1].read)[1]].unattended_install
    /\ returned[1].writeback
    /\ installinfo_plist[1].managed_installs # returned[1].read

\* ------------------------------------------------------------------------
\* Stop requests
\* ------------------------------------------------------------------------
\* C15: a stop can only be requested before InstallInfo.plist is written;
\* once it has been requested, at whatever point of the run, the run ends
\* without writing InstallInfo.plist.
C15_StoppedRunNotPersisted ==
    stop => installinfo_plist = <<>>

\* ------------------------------------------------------------------------
\* Managed updates
\* ------------------------------------------------------------------------
\* some version of an item of that name is detected as installed
VersionDetected(name) ==
    \E c \in 1..Len(maincatalogs) :
        /\ CatalogLoaded(maincatalogs[c])
        /\ \E it \in Range(CATALOG[maincatalogs[c]]) :
              it.name = name /\ someVersionInstalled(it)

\* a managed_updates entry has just been dispatched and the run goes on
UpdateDispatched ==
    /\ pc = "managed_updates"
    /\ dispatched # <<>>
    /\ dispatched[1] = "managed_updates"

\* the records the dispatch appended to managed_installs
AppendedByDispatch ==
    IF calls = <<>> THEN <<>>
    ELSE SubSeq(installinfo.managed_installs,
                Len(calls[Len(calls)].pre.managed_installs) + 1,
                Len(installinfo.managed_installs))

\* C16, as the claim states it: the dispatch of a managed_updates entry
\* appends no pending install (installed = false, with a payload) for an
\* item of which no version is detected as installed, the items reached
\* through requires and update_for included.
C16_UpdatesAddNothingNew ==
    UpdateDispatched
    => \A i \in 1..Len(AppendedByDispatch) :
          (/\ ~AppendedByDispatch[i].installed
           /\ AppendedByDispatch[i].installer_item # "")
          => VersionDetected(AppendedByDispatch[i].name)

\* the entry resolves to an item of which no version is installed
UpdateOfAbsentItem ==
    /\ UpdateDispatched
    /\ ~nameAndVersionRaises(dispatched[2])
    /\ getItemDetail(dispatched[2], maincatalogs, <<>>) # <<>>
    /\ ~someVersionInstalled(
           getItemDetail(dispatched[2], maincatalogs, <<>>)[1])

\* C16, amended: the dispatch of a managed_updates entry whose item has no
\* version installed calls processInstall for nothing, so it appends no
\* record, and does not put the name in managed_updates.
C16_AbsentItemNotUpdated ==
    UpdateOfAbsentItem
    => /\ calls = <<>>
       /\ ~InSeq(dispatched[2], installinfo.managed_updates)

\* a managed_updates entry for B, which is not installed, was dispatched
\* after an entry that had an update to install
C16_AbsentItemSkippedReached ==
    /\ UpdateOfAbsentItem
    /\ dispatched[2] = sB
    /\ installinfo.managed_updates # <<>>
    /\ installinfo.managed_installs # <<>>

\* ------------------------------------------------------------------------
\* trimVersionString(version_string) on every short string of an alphabet
\* ------------------------------------------------------------------------
MaxVersionLen == 7

VersionChars == {"0", "1", ".", "a"}

VersionStrings == UNION {[1..n -> VersionChars] : n \in 0..MaxVersionLen}

InitNormalize ==
    /\ NoRun
    /\ CATALOG = << >>
    /\ installinfo = EmptyInstallInfo
    /\ installinfo_plist = <<>>
    /\ \E x \in VersionStrings :
          args = [fn |-> "trimVersionString", version_string |-> x]
    /\ returned = <<>>

CallTrimVersionString ==
    /\ args # <<>>
    /\ args.fn = "trimVersionString"
    /\ returned = <<>>
    /\ returned' = <<trimVersionString(args.version_string)>>
    /\ UNCHANGED <<CATALOG, MACHINE, maincatalogs, fetchres, installinfo,
                   pkg_references, pc, entries, dispatched, calls,
                   failedInstalls, args, stop, installinfo_plist>>

NextNormalize == CallTrimVersionString

SpecNormalize == InitNormalize /\ [][NextNormalize]_vars

\* C17: trimVersionString is idempotent, what it returns is made of the
\* first dot-separated segments of its argument, and the last segment of
\* what it returns is a lone 0 only if there are at most two segments.
C17_NormalizeIdempotentPrefix ==
    (returned # <<>> /\ args.fn = "trimVersionString")
    => /\ trimVersionString(returned[1]) = returned[1]
       /\ Len(returned[1]) <= Len(args.version_string)
       /\ returned[1] = SubSeq(args.version_string, 1, Len(returned[1]))
       /\ Len(SplitDots(returned[1])) <= Len(SplitDots(args.version_string))
       /\ SplitDots(returned[1])
             = SubSeq(SplitDots(args.version_string), 1,
                      Len(SplitDots(returned[1])))
       /\ SplitDots(returned[1])[Len(SplitDots(returned[1]))] = <<"0">>
             => Len(SplitDots(returned[1])) <= 2

\* two trailing zero segments were dropped, the second segment was kept
C17_ZerosDroppedReached ==
    /\ returned # <<>>
    /\ args.fn = "trimVersionString"
    /\ args.version_string = <<"1", ".", "0", ".", "0", ".", "0">>
    /\ returned[1] = <<"1", ".", "0">>

\* ------------------------------------------------------------------------
\* nameAndVersion(aString) on every short string of an alphabet
\* ------------------------------------------------------------------------
MaxNameLen == 6

NameChars == {"A", "-", "1"}

NameStrings == UNION {[1..n -> NameChars] : n \in 0..MaxNameLen}

InitSplit ==
    /\ NoRun
    /\ CATALOG = << >>
    /\ installinfo = EmptyInstallInfo
    /\ installinfo_plist = <<>>
    /\ \E s \in NameStrings : args = [fn |-> "nameAndVersion", aString |-> s]
    /\ returned = <<>>

\* the call: it returns a pair or raises IndexError
CallNameAndVersion ==
    /\ args # <<>>
    /\ args.fn = "nameAndVersion"
    /\ returned = <<>>
    /\ returned' = IF nameAndVersionRaises(args.aString)
                   THEN <<[exc |-> "IndexError", value |-> <<>>]>>
                   ELSE <<[exc |-> "",
                           value |-> nameAndVersion(args.aString)]>>
    /\ UNCHANGED <<CATALOG, MACHINE, maincatalogs, fetchres, installinfo,
                   pkg_references, pc, entries, dispatched, calls,
                   failedInstalls, args, stop, installinfo_plist>>

NextSplit == CallNameAndVersion

SpecSplit == InitSplit /\ [][NextSplit]_vars

\* the places of s where a token starting with a digit follows a hyphen
VersionStarts(s) ==
    {p \in 2..Len(s) : s[p - 1] = "-" /\ s[p] \in Digit}

LastVersionStart(s) ==
    CHOOSE p \in VersionStarts(s) : \A q \in VersionStarts(s) : q <= p

\* C18: nameAndVersion(s) splits s at the last single or double hyphen that
\* a token starting with a digit follows, so that name + delimiter +
\* version = s, and returns (s, '') exactly when no hyphen of s is followed
\* by such a token, strings ending in a hyphen included.
C18_SplitAtLastVersion ==
    (returned # <<>> /\ args.fn = "nameAndVersion")
    => /\ returned[1].exc = ""
       /\ IF VersionStarts(args.aString) = {}
          THEN returned[1].value = <<args.aString, <<>>>>
          ELSE /\ returned[1].value[2]
                     = SubSeq(args.aString, LastVersionStart(args.aString),
                              Len(args.aString))
               /\ \/ NameDashVersion(returned[1].value[1],
                                     returned[1].value[2]) = args.aString
                  \/ NameDashDashVersion(returned[1].value[1],
                                         returned[1].value[2]) = args.aString

\* ------------------------------------------------------------------------
\* processInstall: the updates of an item it records
\* ------------------------------------------------------------------------
InstallDispatchStep ==
    /\ pc = "managed_installs"
    /\ dispatched' # dispatched \/ entries' # entries
    /\ dispatched' # <<>>
    /\ dispatched'[1] = "managed_installs"

\* the version of a record of managed_installs: installed or to install
RecordedVersion(iteminfo) ==
    IF iteminfo.installed THEN iteminfo.installed_version
    ELSE iteminfo.version_to_install

\* the names of the updaters of an item: of its base name and of the
\* composites of its base name and a version
UpdatersOf(name, version) ==
    Range(lookForUpdates(name, maincatalogs))
    \cup Range(lookForUpdatesForVersion(name, version, maincatalogs))

\* call c of thecalls ran processInstall on name inside call i of thecalls
CalledWithin(thecalls, i, name) ==
    \E c \in 1..(i - 1) :
       /\ thecalls[c].fn = "processInstall"
       /\ thecalls[c].item = name
       /\ Len(thecalls[c].pre.managed_installs)
             >= Len(thecalls[i].pre.managed_installs)
       /\ Len(thecalls[c].post.managed_installs)
             <= Len(thecalls[i].post.managed_installs)

\* call i of thecalls appended record k of managed_installs, then ran
\* processInstall on each updater and returned true
RecordedThenUpdated(thecalls, i, k, iteminfo) ==
    /\ thecalls[i].fn = "processInstall"
    /\ thecalls[i].item_pl # <<>>
    /\ thecalls[i].item_pl[1].name = iteminfo.name
    /\ Len(thecalls[i].pre.managed_installs) < k
    /\ k <= Len(thecalls[i].post.managed_installs)
    /\ thecalls[i].ret
    /\ \A u \in UpdatersOf(iteminfo.name, RecordedVersion(iteminfo)) :
          CalledWithin(thecalls, i, u)

\* C19: every record processInstall appends for an item that will be
\* installed or is installed (no note of a failed download) is followed by
\* calls of processInstall on the updaters of the item's base name and of
\* its name-version composites, and by the return of true, also when the
\* request has an embedded version and the item needs installing.
C19_RecordThenUpdatesThenTrue ==
    [][InstallDispatchStep =>
          \A k \in (Len(installinfo.managed_installs) + 1)
                      ..Len(installinfo'.managed_installs) :
             installinfo'.managed_installs[k].note = ""
             => \E i \in 1..Len(calls') :
                   RecordedThenUpdated(calls', i, k,
                       installinfo'.managed_installs[k])]_vars

\* ------------------------------------------------------------------------
\* processInstall: termination
\* ------------------------------------------------------------------------
\* the call does not recurse beyond RecursionLimit frames
Terminates(st) == st.exc # "RuntimeError"

\* C20: processInstall terminates on every name, whatever cycles the
\* requires and update_for keys of the catalogs form, when the name is
\* dispatched from managed_installs and when it is dispatched from
\* managed_updates.
C20_ProcessInstallTerminates ==
    /\ pc = "managed_installs"
       => \A item \in ManifestNames :
             Terminates(processInstall(item, maincatalogs, Entering, 1))
    /\ pc = "managed_updates"
       => \A item \in ManifestNames :
             Terminates(processManagedUpdate(item, maincatalogs, Entering))

\* ------------------------------------------------------------------------
\* processManifestForKey(manifest, manifest_key, installinfo, parentcatalogs)
\* on a small set of manifests. A walk threads w = [st, walk, returned]:
\* the resolver's record, the log of the items dispatched, each with its
\* origin (the positions that lead to it: 1 for included_manifests, 2 for
\* conditional_items, 3 for the manifest's own list, each followed by the
\* index in that list), and whether the frame has returned.
\* ------------------------------------------------------------------------
ManifestKeys ==
    {"managed_installs", "managed_uninstalls", "managed_updates",
     "optional_installs"}

KeyLists(key, items) ==
    [k \in ManifestKeys |-> IF k = key THEN items ELSE <<>>]

ManifestData(catalogs, included, conditionals, key, items) ==
    [catalogs |-> catalogs, included_manifests |-> included,
     conditional_items |-> conditionals, lists |-> KeyLists(key, items)]

\* a dictionary of conditional_items; parses and value say what NSPredicate
\* makes of its condition
ConditionalItem(has_condition, parses, value, included, key, items) ==
    [has_condition |-> has_condition,
     condition |-> [parses |-> parses, value |-> value],
     catalogs |-> <<>>, included_manifests |-> included,
     conditional_items |-> <<>>, lists |-> KeyLists(key, items)]

\* getmanifest(partialurl): <<path>>, or <<>> for None and for
\* ManifestException
getmanifest(manifests, partialurl) ==
    IF partialurl \in DOMAIN manifests THEN <<partialurl>> ELSE <<>>

\* predicateEvaluatesAsTrue(predicate_string)
predicateEvaluatesAsTrue(predicate) ==
    IF ~predicate.parses THEN FALSE ELSE predicate.value

\* the call the loop over the manifest's own list makes for manifest_key
DispatchItem(manifest_key, item, cataloglist, st) ==
    CASE manifest_key = "managed_installs" ->
             processInstall(item, cataloglist, st, 1)
      [] manifest_key = "managed_updates" ->
             processManagedUpdate(item, cataloglist, st)
      [] manifest_key = "optional_installs" ->
             processOptionalInstall(item, cataloglist, st)
      [] manifest_key = "managed_uninstalls" ->
             processRemoval(item, cataloglist, st, 1)

Logged(w, origin, item, cataloglist, st) ==
    [w EXCEPT !.st = st,
              !.walk = Append(@, [origin |-> origin, item |-> item,
                                  cataloglist |-> cataloglist])]

RECURSIVE processManifestForKey(_, _, _, _, _, _, _)
RECURSIVE WalkNested(_, _, _, _, _, _, _, _)
RECURSIVE WalkConditionals(_, _, _, _, _, _, _, _)
RECURSIVE WalkItems(_, _, _, _, _, _)

\* for item in items: the stop test, then the call for manifest_key
WalkItems(items, i, manifest_key, cataloglist, origin, w) ==
    IF i > Len(items) \/ w.returned \/ w.st.exc # "" THEN w
    ELSE IF stop THEN [w EXCEPT !.returned = TRUE]
    ELSE WalkItems(items, i + 1, manifest_key, cataloglist, origin,
             Logged(w, origin \o <<3, i>>, items[i], cataloglist,
                    DispatchItem(manifest_key, items[i], cataloglist,
                                 w.st)))

\* the frame of a nested manifest has returned; the loop goes on
Resumed(w) == [w EXCEPT !.returned = FALSE]

\* for item in nestedmanifests
WalkNested(manifests, items, i, manifest_key, cataloglist, origin, depth, w) ==
    IF i > Len(items) \/ w.returned \/ w.st.exc # "" THEN w
    ELSE IF stop THEN [w EXCEPT !.returned = TRUE]
    ELSE IF getmanifest(manifests, items[i]) = <<>>
    THEN WalkNested(manifests, items, i + 1, manifest_key, cataloglist,
                    origin, depth, w)
    ELSE WalkNested(manifests, items, i + 1, manifest_key, cataloglist,
                    origin, depth,
             Resumed(processManifestForKey(manifests,
                         manifests[items[i]], manifest_key, cataloglist,
                         origin \o <<1, i>>, depth + 1, w)))

\* for item in conditionalitems
WalkConditionals(manifests, items, i, manifest_key, cataloglist, origin, depth, w) ==
    IF i > Len(items) \/ w.returned \/ w.st.exc # "" THEN w
    ELSE IF ~items[i].has_condition
            \/ ~predicateEvaluatesAsTrue(items[i].condition)
    THEN WalkConditionals(manifests, items, i + 1, manifest_key,
                          cataloglist, origin, depth, w)
    ELSE WalkConditionals(manifests, items, i + 1, manifest_key,
                          cataloglist, origin, depth,
             Resumed(processManifestForKey(manifests, items[i],
                         manifest_key, cataloglist, origin \o <<2, i>>,
                         depth + 1, w)))

\* the body of processManifestForKey, were the own list dispatched before
\* the included manifests and the conditional items
WalkManifestOwnListFirst(manifests, manifestdata, manifest_key, cataloglist, origin, depth, w) ==
    WalkConditionals(manifests, manifestdata.conditional_items, 1,
                     manifest_key, cataloglist, origin, depth,
        WalkNested(manifests, manifestdata.included_manifests, 1,
                   manifest_key, cataloglist, origin, depth,
            WalkItems(manifestdata.lists[manifest_key], 1, manifest_key,
                      cataloglist, origin, w)))

\* the body of processManifestForKey once cataloglist is known: the
\* included manifests, then the conditional items, then the own list
WalkManifest(manifests, manifestdata, manifest_key, cataloglist, origin, depth, w) ==
    WalkItems(manifestdata.lists[manifest_key], 1, manifest_key,
              cataloglist, origin,
        WalkConditionals(manifests, manifestdata.conditional_items, 1,
                         manifest_key, cataloglist, origin, depth,
            WalkNested(manifests, manifestdata.included_manifests, 1,
                       manifest_key, cataloglist, origin, depth, w)))

\* cataloglist = manifestdata.get('catalogs') or parentcatalogs
CatalogListOf(manifestdata, parentcatalogs) ==
    IF manifestdata.catalogs # <<>> THEN manifestdata.catalogs
    ELSE parentcatalogs

processManifestForKey(manifests, manifestdata, manifest_key, parentcatalogs, origin, depth, w) ==
    IF depth > RecursionLimit
    THEN [w EXCEPT !.st = Raise("RuntimeError", w.st)]
    ELSE IF CatalogListOf(manifestdata, parentcatalogs) = <<>>
    THEN [w EXCEPT !.returned = TRUE]
    ELSE WalkManifest(manifests, manifestdata, manifest_key,
                      CatalogListOf(manifestdata, parentcatalogs), origin,
                      depth, w)

\* the manifests of a walk: the primary manifest main and one it may
\* include, inc; no manifest named gone can be retrieved
MainIncluded ==
    {<<>>, <<"inc">>, <<"gone", "inc">>, <<"inc", "inc">>, <<"main">>}

IncIncluded == {<<>>, <<"main">>, <<"inc">>}

MainConditionals(key) ==
    {<<>>,
     <<ConditionalItem(TRUE, TRUE, TRUE, <<>>, key, <<sB>>)>>,
     <<ConditionalItem(TRUE, TRUE, FALSE, <<>>, key, <<sB>>)>>,
     <<ConditionalItem(TRUE, FALSE, FALSE, <<>>, key, <<sB>>)>>,
     <<ConditionalItem(FALSE, FALSE, FALSE, <<>>, key, <<sB>>)>>,
     <<ConditionalItem(TRUE, TRUE, TRUE, <<>>, key, <<sB>>),
       ConditionalItem(TRUE, TRUE, TRUE, <<"inc">>, key, <<sM>>)>>,
     <<ConditionalItem(TRUE, TRUE, FALSE, <<>>, key, <<sB>>),
       ConditionalItem(TRUE, TRUE, TRUE, <<>>, key, <<sM>>)>>}

MainCatalogs == {<<"production">>, <<>>}

IncCatalogs == {<<>>, <<"testing">>}

MainItems == {<<>>, <<sA>>, <<sA, sB>>}

IncItems == {<<>>, <<sB>>, <<sB, sA>>}

ManifestSets(key) ==
    {[main |-> ManifestData(mc, mi, mcond, key, mitems),
      inc |-> ManifestData(ic, ii, <<>>, key, iitems)] :
        mc \in MainCatalogs, mi \in MainIncluded,
        mcond \in MainConditionals(key), mitems \in MainItems,
        ic \in IncCatalogs, ii \in IncIncluded, iitems \in IncItems}

DefaultScenario == [f \in DOMAIN (CHOOSE sc \in ScenarioSpace : TRUE) |-> 1]

InitManifest ==
    /\ CATALOG = CatalogsOf(DefaultScenario)
    /\ fetchres = FetchOf(DefaultScenario)
    /\ maincatalogs = <<>>
    /\ MACHINE = ThisMachine
    /\ installinfo = EmptyInstallInfo
    /\ pkg_references = InitialPkgReferences
    /\ pc = "idle"
    /\ entries = 0
    /\ dispatched = <<>>
    /\ calls = <<>>
    /\ failedInstalls = {}
    /\ installinfo_plist = <<>>
    /\ stop \in BOOLEAN
    /\ \E key \in ManifestKeys : \E manifests \in ManifestSets(key) :
          args = [fn |-> "processManifestForKey", manifests |-> manifests,
                  manifest |-> "main", manifest_key |-> key]
    /\ returned = <<>>

\* the state after the walk that ended in w
Walked(w) ==
    /\ installinfo' = w.st.installinfo
    /\ pkg_references' = w.st.pkg_references
    /\ calls' = w.st.calls
    /\ failedInstalls' = w.st.failedInstalls
    /\ returned' = <<[exc |-> w.st.exc, walk |-> w.walk]>>
    /\ UNCHANGED <<CATALOG, MACHINE, maincatalogs, fetchres, pc, entries,
                   dispatched, args, stop, installinfo_plist>>

\* processManifestForKey(mainmanifestpath, manifest_key, installinfo)
CallProcessManifestForKey ==
    /\ args # <<>>
    /\ args.fn = "processManifestForKey"
    /\ returned = <<>>
    /\ Walked(processManifestForKey(args.manifests,
                  args.manifests[args.manifest], args.manifest_key, <<>>,
                  <<>>, 1, [st |-> Entering, walk |-> <<>>,
                            returned |-> FALSE]))

NextManifest == CallProcessManifestForKey

SpecManifest == InitManifest /\ [][NextManifest]_vars

ManifestWalked ==
    /\ returned # <<>>
    /\ args.fn = "processManifestForKey"

\* the manifests reachable through included_manifests, conditional items
\* included
IncludedBy(manifests, name) ==
    {n \in DOMAIN manifests :
        \/ InSeq(n, manifests[name].included_manifests)
        \/ \E j \in 1..Len(manifests[name].conditional_items) :
              /\ manifests[name].conditional_items[j].has_condition
              /\ predicateEvaluatesAsTrue(
                     manifests[name].conditional_items[j].condition)
              /\ InSeq(n, manifests[name].conditional_items[j]
                              .included_manifests)}

\* a manifest that is walked (it has catalogs of its own or inherits
\* them) lists itself, directly or through the other manifest
InclusionCycle(manifests) ==
    /\ manifests.main.catalogs # <<>>
    /\ \/ "main" \in IncludedBy(manifests, "main")
       \/ /\ "inc" \in IncludedBy(manifests, "main")
          /\ IncludedBy(manifests, "inc") # {}

\* C21: a manifest that lists itself, directly or transitively, in
\* included_manifests is detected and reported as an error, and the walk
\* terminates instead of recursing without bound.
C21_InclusionCycleDetected ==
    ManifestWalked => returned[1].exc # "RuntimeError"

\* ------------------------------------------------------------------------
\* processRemoval on catalogs whose items depend on one another, update one
\* another and share receipts: the managed_uninstalls pass of a run whose
\* managed_installs are empty
\* ------------------------------------------------------------------------
Receipts(pkgids) ==
    [i \in 1..Len(pkgids) |-> [packageid |-> pkgids[i], version |-> v1]]

\* an item installed from packages, removed through its receipts
WithReceipts(item, pkgids) ==
    IF pkgids = <<>> THEN item
    ELSE [item EXCEPT !.installs = <<>>, !.receipts = Receipts(pkgids),
                      !.uninstall_method = "removepackages"]

Receipts_A == {<<>>, <<"pkg1">>, <<"pkg1", "pkg2">>}

Receipts_B == {<<>>, <<"pkg2">>, <<"pkg1">>}

InstalledPkgSets == SUBSET {"pkg1", "pkg2"}

RemovalScenarios ==
    [reqA : {<<>>, <<sB>>}, rcptA : Receipts_A,
     reqB : {<<>>, <<sA>>}, rcptB : Receipts_B, resB : {0, 1},
     uninstallableB : BOOLEAN,
     reqU : {<<>>, <<sA>>}, resU : {0, 1}, uninstallableU : BOOLEAN,
     installedpkgs : InstalledPkgSets]

RemovalCatalog(rs) ==
    <<WithReceipts(PkgInfo(sA, v2, rs.reqA, <<>>, 1, "A-2.dmg"), rs.rcptA),
      WithReceipts([PkgInfo(sB, v1, rs.reqB, <<>>, rs.resB, "B-1.dmg")
                       EXCEPT !.uninstallable = rs.uninstallableB],
                   rs.rcptB),
      [PkgInfo(sU, v1, rs.reqU, <<sB>>, rs.resU, "U-1.dmg")
          EXCEPT !.uninstallable = rs.uninstallableU]>>

InitRemoval ==
    /\ \E rs \in RemovalScenarios :
          /\ CATALOG = [production |-> RemovalCatalog(rs)]
          /\ MACHINE = [ThisMachine EXCEPT !.installedpkgs =
                            [p \in rs.installedpkgs |-> v1]]
    /\ fetchres = FetchOf(DefaultScenario)
    /\ maincatalogs = <<"production">>
    /\ installinfo = EmptyInstallInfo
    /\ pkg_references = InitialPkgReferences
    /\ pc = "managed_uninstalls"
    /\ entries = 0
    /\ dispatched = <<>>
    /\ calls = <<>>
    /\ failedInstalls = {}
    /\ args = <<>>
    /\ returned = <<>>
    /\ stop = FALSE
    /\ installinfo_plist = <<>>

NextRemoval == DispatchManagedUninstall

SpecRemoval == InitRemoval /\ [][NextRemoval]_vars

\* the names by which a requires key may refer to item
RemovalTargets(item) ==
    {item.name, NameDashVersion(item.name, item.version),
     NameDashDashVersion(item.name, item.version)}

\* the catalog items that require item and show installed evidence
InstalledDependents(item) ==
    {d \in AllCatalogItems :
        /\ Range(d.requires) \cap RemovalTargets(item) # {}
        /\ evidenceThisIsInstalled(d)}

\* call c found its item installed and appended the record of its removal
RecordedRemoval(c) ==
    /\ c.fn = "processRemoval"
    /\ c.item_pl # <<>>
    /\ c.ret

\* removals[1..n] holds an installed = true record called name
RemovedWithin(removals, n, name) ==
    \E j \in 1..n : removals[j].name = name /\ removals[j].installed

\* C22: processRemoval(T) appends a record for T only if every catalog item
\* that requires T (by name, name-version or name--version) and shows
\* installed evidence has an installed = true record earlier in removals;
\* when such a dependent has not been removed, the call returns false.
C22_DependentsRemovedFirst ==
    \A i \in 1..Len(calls) :
       (/\ calls[i].fn = "processRemoval"
        /\ calls[i].item_pl # <<>>)
       => /\ RecordedRemoval(calls[i])
             => \A d \in InstalledDependents(calls[i].item_pl[1]) :
                   RemovedWithin(calls[i].post.removals,
                                 Len(calls[i].post.removals) - 1, d.name)
          /\ (\E d \in InstalledDependents(calls[i].item_pl[1]) :
                 ~RemovedWithin(calls[i].post.removals,
                                Len(calls[i].post.removals), d.name))
             => ~calls[i].ret


\* the names of the installed = true records of removals[1..n]
RemovedNames(removals, n) ==
    {removals[j].name : j \in {k \in 1..n : removals[k].installed}}

\* the names analyzeInstalledPkgs() found installed that refer to pkg
ReferencedBy(pkg) ==
    {n \in InstalledNames : pkg \in InstalledPkgsFor(n)}

\* C23: a package id is in the packages of a removal record only when every
\* installed item that refers to it is recorded for removal in this run,
\* that record's item included; no package id is in two records; a
\* receipt-based removal with no package to remove physically returns
\* false and appends no record.
C23_LastReferenceQueuesReceipt ==
    /\ \A k \in 1..Len(installinfo.removals) :
          \A pkg \in Range(installinfo.removals[k].packages) :
             /\ ReferencedBy(pkg)
                   \subseteq RemovedNames(installinfo.removals, k)
             /\ \A j \in 1..Len(installinfo.removals) :
                   InSeq(pkg, installinfo.removals[j].packages) => j = k
    /\ \A k \in 1..Len(installinfo.removals) :
          (/\ installinfo.removals[k].installed
           /\ installinfo.removals[k].uninstall_method = "removepackages")
          => installinfo.removals[k].packages # <<>>


\* the names of the items that update item: of its name and of its
\* name-version forms
RemovalUpdaters(item) ==
    Range(lookForUpdates(item.name, maincatalogs))
    \cup Range(lookForUpdatesForVersion(item.name, item.version,
                                        maincatalogs))

\* the places in removals of the records the call appended
AppendedBy(c) ==
    (Len(c.pre.removals) + 1)..Len(c.post.removals)

\* C24, as the claim states it: the record of a removed item T is appended
\* to removals before the removal of the updaters of T is processed, so it
\* precedes the records of its updaters in removals.
C24_RemovalPrecedesUpdaters ==
    \A i \in 1..Len(calls) :
       RecordedRemoval(calls[i])
       => \A k \in AppendedBy(calls[i]) : \A j \in AppendedBy(calls[i]) :
             (/\ calls[i].post.removals[k].name = calls[i].item_pl[1].name
              /\ calls[i].post.removals[k].installed
              /\ calls[i].post.removals[j].name
                    \in RemovalUpdaters(calls[i].item_pl[1]))
             => k < j

\* C24, amended: the removal of the updaters of T is processed before the
\* record of T is appended, so the record of T is the last the call
\* appends and the records the call appends for its updaters precede it.
C24_UpdatersPrecedeRemoval ==
    \A i \in 1..Len(calls) :
       RecordedRemoval(calls[i])
       => /\ AppendedBy(calls[i]) # {}
          /\ calls[i].post.removals[Len(calls[i].post.removals)].name
                = calls[i].item_pl[1].name
          /\ calls[i].post.removals[Len(calls[i].post.removals)].installed
          /\ \A j \in AppendedBy(calls[i]) :
                calls[i].post.removals[j].name
                   \in RemovalUpdaters(calls[i].item_pl[1])
                => j < Len(calls[i].post.removals)

\* the removal of B was recorded after the removal of its installed
\* updater U
C24_UpdaterRecordedFirstReached ==
    /\ pc = "managed_uninstalls"
    /\ dispatched = <<"managed_uninstalls", sB>>
    /\ calls # <<>>
    /\ RecordedRemoval(calls[Len(calls)])
    /\ Len(installinfo.removals) = 2
    /\ installinfo.removals[1].name = sU
    /\ installinfo.removals[1].installed
    /\ installinfo.removals[2].name = sB

\* ------------------------------------------------------------------------
\* Stop requests and the resolver
\* ------------------------------------------------------------------------
\* the step completes no call of processInstall or processRemoval
NoCallCompleted == calls' = calls \/ calls' = <<>>

\* the step appends no record to managed_installs or to removals
NoRecordAppended ==
    /\ Len(installinfo'.managed_installs) <= Len(installinfo.managed_installs)
    /\ Len(installinfo'.removals) <= Len(installinfo.removals)

\* C25: once stop has been requested, no call of processInstall or of
\* processRemoval does resolution work or appends a record, whichever
\* entry point would make it: a dispatch of a manifest's list, a
\* prerequisite, a dependent, an updater or a self-service install.
C25_NoWorkAfterStop ==
    [][stop => (NoCallCompleted /\ NoRecordAppended)]_vars

\* ------------------------------------------------------------------------
\* getItemDetail(name, cataloglist, vers) on two catalogs whose items carry
\* os and cpu requirements; the machine runs 10.8 on x86_64
\* ------------------------------------------------------------------------
MaxCatalogItems == 2

os107 == <<"1", "0", ".", "7">>
os108 == <<"1", "0", ".", "8">>
os109 == <<"1", "0", ".", "9">>

\* [minimum_os_version, maximum_os_version, has supported_architectures,
\*  supported_architectures]
Requirements ==
    {<<<<>>, <<>>, FALSE, <<>>>>,
     <<os109, <<>>, FALSE, <<>>>>,
     <<os108, os108, FALSE, <<>>>>,
     <<<<>>, os107, FALSE, <<>>>>,
     <<<<>>, <<>>, TRUE, <<"i386">>>>,
     <<os107, os109, TRUE, <<"i386", "x86_64">>>>}

Requiring(item, r) ==
    [item EXCEPT !.minimum_os_version = r[1], !.maximum_os_version = r[2],
                 !.has_supported_architectures = r[3],
                 !.supported_architectures = r[4]]

CandidateItems ==
    {Requiring(PkgInfo(sA, v, <<>>, <<>>, 0, "A.dmg"), r) :
        v \in {<<"1", ".", "0">>, <<"2", ".", "0">>}, r \in Requirements}

CandidateLists(n) == UNION {[1..k -> CandidateItems] : k \in 0..n}

InitEligible ==
    /\ NoRun
    /\ installinfo = EmptyInstallInfo
    /\ installinfo_plist = <<>>
    /\ \E production \in CandidateLists(MaxCatalogItems) :
       \E testing \in CandidateLists(1) :
          CATALOG = [production |-> production, testing |-> testing]
    /\ \E cataloglist \in {<<"production", "testing">>,
                           <<"absent", "testing", "production">>} :
       \E vers \in {<<>>, <<"1", ".", "0">>} :
          args = [fn |-> "getItemDetail", name |-> sA,
                  cataloglist |-> cataloglist, vers |-> vers]
    /\ returned = <<>>

SpecEligible == InitEligible /\ [][NextResolve]_vars

ResolveReturned == returned # <<>> /\ args.fn = "getItemDetail"

\* the items of a catalog that have the name asked for and are eligible on
\* this machine
EligibleIn(catalogname) ==
    IF ~CatalogLoaded(catalogname) THEN {}
    ELSE {it \in ItemsNamed(catalogname, args.name) : MeetsRequirements(it)}

\* the first catalog of the list that holds an eligible candidate
FirstCatalogWithEligible(cataloglist) ==
    cataloglist[CHOOSE i \in 1..Len(cataloglist) :
                   /\ EligibleIn(cataloglist[i]) # {}
                   /\ \A j \in 1..(i - 1) : EligibleIn(cataloglist[j]) = {}]

\* C26: with no version asked for, getItemDetail returns the newest
\* eligible version of the first catalog of the list that holds an eligible
\* candidate of the name, even when a later catalog holds a newer one; it
\* goes on to the next catalog only when the current one holds no eligible
\* candidate.
C26_FirstCatalogDecides ==
    (ResolveReturned /\ args.vers = <<>>)
    => IF \A i \in 1..Len(args.cataloglist) :
             EligibleIn(args.cataloglist[i]) = {}
       THEN returned[1] = <<>>
       ELSE /\ returned[1] # <<>>
            /\ returned[1][1]
                  \in EligibleIn(FirstCatalogWithEligible(args.cataloglist))
            /\ \A it \in EligibleIn(FirstCatalogWithEligible(
                                        args.cataloglist)) :
                  MunkiLooseVersionCmp(returned[1][1].version, it.version)
                     >= 0

\* the call returned 1.0 from production although testing, later in the
\* list, holds an eligible 2.0, production's own 2.0 being ineligible
C26_OlderFromFirstCatalogReached ==
    /\ ResolveReturned
    /\ args.vers = <<>>
    /\ args.cataloglist = <<"production", "testing">>
    /\ returned[1] # <<>>
    /\ returned[1][1].version = <<"1", ".", "0">>
    /\ returned[1][1] \in Range(CATALOG["production"])
    /\ \E it \in ItemsNamed("production", sA) :
          it.version = <<"2", ".", "0">> /\ ~MeetsRequirements(it)
    /\ \E it \in EligibleIn("testing") : it.version = <<"2", ".", "0">>


\* the candidates of the call: the items of the listed catalogs that have
\* the name and, when a version is asked for, that version
Candidates ==
    UNION {IF CatalogLoaded(args.cataloglist[i])
           THEN {it \in ItemsNamed(args.cataloglist[i], args.name) :
                    \/ args.vers = <<>>
                    \/ trimVersionString(it.version)
                          = trimVersionString(args.vers)}
           ELSE {} : i \in 1..Len(args.cataloglist)}

MinimumOsMet(item) ==
    \/ item.minimum_os_version = <<>>
    \/ MunkiLooseVersionCmp(item.minimum_os_version, MACHINE.os_vers) <= 0

ArchitectureSupported(item) ==
    \/ ~item.has_supported_architectures
    \/ InSeq(MACHINE.arch, item.supported_architectures)

\* machine < maximum_os_version
BelowMaximumOs(item) ==
    \/ item.maximum_os_version = <<>>
    \/ MunkiLooseVersionCmp(MACHINE.os_vers, item.maximum_os_version) < 0

\* machine <= maximum_os_version
WithinMaximumOs(item) ==
    \/ item.maximum_os_version = <<>>
    \/ MunkiLooseVersionCmp(MACHINE.os_vers, item.maximum_os_version) <= 0

\* C27, as the claim states it: every item getItemDetail returns has
\* minimum_os_version <= machine os < maximum_os_version, for each bound
\* that is set, and lists the machine's architecture when it has
\* supported_architectures; a candidate that does not is never returned.
C27_ReturnedBelowMaximum ==
    (ResolveReturned /\ returned[1] # <<>>)
    => /\ returned[1][1] \in Candidates
       /\ MinimumOsMet(returned[1][1])
       /\ BelowMaximumOs(returned[1][1])
       /\ ArchitectureSupported(returned[1][1])

\* C27, amended: the upper bound is inclusive, minimum_os_version <=
\* machine os <= maximum_os_version; nothing is returned exactly when no
\* candidate meets the three requirements.
C27_ReturnedWithinBounds ==
    ResolveReturned
    => IF returned[1] = <<>>
       THEN \A it \in Candidates :
               ~(/\ MinimumOsMet(it) /\ WithinMaximumOs(it)
                 /\ ArchitectureSupported(it))
       ELSE /\ returned[1][1] \in Candidates
            /\ MinimumOsMet(returned[1][1])
            /\ WithinMaximumOs(returned[1][1])
            /\ ArchitectureSupported(returned[1][1])

\* the call skipped a newer candidate that lists another architecture and
\* returned one whose maximum_os_version is the machine's os version
C27_BoundaryReturnedReached ==
    /\ ResolveReturned
    /\ args.cataloglist = <<"production", "testing">>
    /\ returned[1] # <<>>
    /\ returned[1][1].maximum_os_version = MACHINE.os_vers
    /\ \E it \in Candidates :
          /\ ~ArchitectureSupported(it)
          /\ MunkiLooseVersionCmp(it.version, returned[1][1].version) > 0
          /\ it \in Range(CATALOG[args.cataloglist[1]])

\* ------------------------------------------------------------------------
\* processInstall of a name the catalogs of the manifest do not hold
\* ------------------------------------------------------------------------
InstallsWalked ==
    /\ ManifestWalked
    /\ args.manifest_key = "managed_installs"

\* the call failed because getItemDetail found no item: it returned False
\* without an item, and not because the name had been processed for removal
NotFoundCall(c) ==
    /\ c.fn = "processInstall"
    /\ ~c.ret
    /\ c.item_pl = <<>>
    /\ ~InSeq(nameAndVersion(c.item)[1], c.pre.processed_uninstalls)

\* managed_installs holds a record of the item the entry resolves to
ResolvedAndRecorded(entry) ==
    \E k \in 1..Len(installinfo.managed_installs) :
       installinfo.managed_installs[k].name
          = getItemDetail(entry.item, entry.cataloglist, <<>>)[1].name

\* C28: a processInstall call that fails because the name resolves to no
\* eligible item of the given catalogs returns false and leaves installinfo
\* as it was, so that a later processInstall of the same name with a
\* catalog list that holds it resolves and records the item.
C28_NotFoundLeavesNoTrace ==
    InstallsWalked
    => /\ \A i \in 1..Len(calls) :
             NotFoundCall(calls[i]) => calls[i].post = calls[i].pre
       /\ returned[1].exc = ""
          => \A n \in 1..Len(returned[1].walk) :
                getItemDetail(returned[1].walk[n].item,
                              returned[1].walk[n].cataloglist, <<>>) # <<>>
                => ResolvedAndRecorded(returned[1].walk[n])

\* B was dispatched with the catalogs of inc, which do not hold it, and
\* later with the catalogs of main, which do, and is recorded
C28_FoundOnRetryReached ==
    /\ InstallsWalked
    /\ returned[1].exc = ""
    /\ \E n \in 1..Len(returned[1].walk) : \E m \in 1..Len(returned[1].walk) :
          /\ n < m
          /\ returned[1].walk[n].item = sB
          /\ returned[1].walk[m].item = sB
          /\ returned[1].walk[n].cataloglist = <<"testing">>
          /\ returned[1].walk[m].cataloglist = <<"production">>
    /\ \E i \in 1..Len(calls) : NotFoundCall(calls[i]) /\ calls[i].item = sB
    /\ \E k \in 1..Len(installinfo.managed_installs) :
          installinfo.managed_installs[k].name = sB


\* ------------------------------------------------------------------------
\* installedState(item_pl) called on its own
\* ------------------------------------------------------------------------
\* number of descriptors in an item's 'installs' list
MaxDescriptors == 3

\* number of receipts in an item's 'receipts' list
MaxReceipts == 2

\* what compareItemVersion makes of one installs descriptor: it raises
\* munkicommon.Error on an unknown type, and answers 0 (not there), -1 (older),
\* 1 (same) or 2 (newer) otherwise
InstallsDescriptors ==
    {[result |-> 0, malformed |-> TRUE]}
    \cup {Descriptor(r) : r \in {-1, 0, 1, 2}}

ReceiptDescriptors ==
    {[packageid |-> "pkg1", version |-> v2],
     [packageid |-> "pkg2", version |-> v2],
     [packageid |-> "pkg1"]}

ListsOver(S, n) == UNION {[1..k -> S] : k \in 0..n}

InstalledVersions ==
    {<< >>, [pkg1 |-> v1], [pkg1 |-> v2], [pkg1 |-> v3],
     [pkg1 |-> v3, pkg2 |-> v2], [pkg1 |-> v2, pkg2 |-> v1]}

InitDetect ==
    /\ \E installedpkgs \in InstalledVersions :
       \E appleupdates \in {{}, {sU}} :
          MACHINE = [ThisMachine EXCEPT !.installedpkgs = installedpkgs,
                                        !.appleupdates = appleupdates]
    /\ maincatalogs = <<>>
    /\ fetchres = << >>
    /\ pkg_references = << >>
    /\ pc = "idle"
    /\ entries = 0
    /\ dispatched = <<>>
    /\ calls = <<>>
    /\ failedInstalls = {}
    /\ stop = FALSE
    /\ CATALOG = << >>
    /\ installinfo = EmptyInstallInfo
    /\ installinfo_plist = <<>>
    /\ \E installs \in ListsOver(InstallsDescriptors, MaxDescriptors) :
       \E receipts \in ListsOver(ReceiptDescriptors, MaxReceipts) :
       \E softwareupdatename \in {<<>>, sU} :
          args = [fn |-> "installedState",
                  item_pl |-> [PkgInfo(sA, v2, <<>>, <<>>, 1, "A-2.dmg")
                                  EXCEPT !.installs = installs,
                                         !.receipts = receipts,
                                         !.softwareupdatename =
                                             softwareupdatename]]
    /\ returned = <<>>

CallInstalledState ==
    /\ args # <<>>
    /\ args.fn = "installedState"
    /\ returned = <<>>
    /\ returned' = <<[exc |-> "", value |-> installedState(args.item_pl)]>>
    /\ UNCHANGED <<CATALOG, MACHINE, maincatalogs, fetchres, installinfo,
                   pkg_references, pc, entries, dispatched, calls,
                   failedInstalls, args, stop, installinfo_plist>>

NextDetect == CallInstalledState

SpecDetect == InitDetect /\ [][NextDetect]_vars

DetectReturned ==
    /\ args # <<>>
    /\ args.fn = "installedState"
    /\ returned # <<>>
    /\ args.item_pl.softwareupdatename = <<>>

\* the comparison results of the list the item is detected by: its installs,
\* or its receipts when it has no installs
DetectionData ==
    IF args.item_pl.installs # <<>> THEN args.item_pl.installs
    ELSE ReceiptResults(args.item_pl)

ReportsAbsent(d) == d.malformed \/ d.result = 0

ReportsOlder(d) == ~d.malformed /\ d.result = -1

ReportsNewer(d) == ~d.malformed /\ d.result = 2

SomeDescriptor(P(_)) == \E i \in 1..Len(DetectionData) : P(DetectionData[i])

\* C29 (as stated): the result is Absent (0) as soon as one descriptor reports
\* Absent or is malformed, Newer (2) exactly when no descriptor reports Absent
\* and at least one reports Newer, and Same (1) when there is no detection
\* data.
C29_NewerUnlessAbsent ==
    DetectReturned
    => /\ returned[1].value \in {0, 1, 2}
       /\ SomeDescriptor(ReportsAbsent) => returned[1].value = 0
       /\ returned[1].value = 2
          <=> (~SomeDescriptor(ReportsAbsent) /\ SomeDescriptor(ReportsNewer))
       /\ DetectionData = <<>> => returned[1].value = 1

\* C29 (amended): the result is one of three values, an older descriptor
\* giving the same 0 as an absent one: it is 0 exactly when one descriptor
\* reports absent or older or is malformed, 2 exactly when none does and at
\* least one reports newer, and 1 otherwise, in particular when there is no
\* detection data.
C29_OlderCountsAsAbsent ==
    DetectReturned
    => /\ returned[1].value \in {0, 1, 2}
       /\ returned[1].value = 0
          <=> (SomeDescriptor(ReportsAbsent) \/ SomeDescriptor(ReportsOlder))
       /\ returned[1].value = 2
          <=> /\ ~SomeDescriptor(ReportsAbsent)
              /\ ~SomeDescriptor(ReportsOlder)
              /\ SomeDescriptor(ReportsNewer)
       /\ DetectionData = <<>> => returned[1].value = 1

\* C29 witness: a newer descriptor is followed by an older one, none is
\* absent, and the item is reported as needing installation.
C29_NewerThenOlderReached ==
    /\ DetectReturned
    /\ Len(DetectionData) >= 2
    /\ ReportsNewer(DetectionData[1])
    /\ ReportsOlder(DetectionData[2])
    /\ ~SomeDescriptor(ReportsAbsent)
    /\ returned[1].value = 0


\* ------------------------------------------------------------------------
\* the order in which processManifestForKey dispatches
\* ------------------------------------------------------------------------
\* origins in the order of the lists they name: the included manifests (1)
\* before the conditional items (2) before the own list (3), each by index
RECURSIVE LexLess(_, _)
LexLess(a, b) ==
    IF a = <<>> THEN b # <<>>
    ELSE IF b = <<>> THEN FALSE
    ELSE IF a[1] # b[1] THEN a[1] < b[1]
    ELSE LexLess(Tail(a), Tail(b))

Matched(conditional) ==
    /\ conditional.has_condition
    /\ conditional.condition.parses
    /\ conditional.condition.value

\* the manifest, or conditional item, an origin leads to from manifestdata
RECURSIVE FrameAt(_, _, _)
FrameAt(manifests, manifestdata, path) ==
    IF path = <<>> THEN manifestdata
    ELSE IF path[1] = 1
    THEN FrameAt(manifests,
                 manifests[manifestdata.included_manifests[path[2]]],
                 SubSeq(path, 3, Len(path)))
    ELSE FrameAt(manifests, manifestdata.conditional_items[path[2]],
                 SubSeq(path, 3, Len(path)))

\* every conditional item on the way to an entry has a condition that
\* parses and evaluates to true
ThroughMatchedOnly(manifests, origin) ==
    \A k \in 1..Len(origin) :
        (k % 2 = 1 /\ origin[k] = 2)
        => Matched(FrameAt(manifests, manifests.main,
                           SubSeq(origin, 1, k - 1))
                       .conditional_items[origin[k + 1]])

\* the entry is the item its origin names
ComesFromItsOrigin(manifests, key, entry) ==
    /\ Len(entry.origin) >= 2
    /\ entry.origin[Len(entry.origin) - 1] = 3
    /\ entry.item =
          FrameAt(manifests, manifests.main,
                  SubSeq(entry.origin, 1, Len(entry.origin) - 2))
              .lists[key][entry.origin[Len(entry.origin)]]

\* the origins of everything a manifest without inclusion cycle
\* contributes, in the order stated
RECURSIVE OriginsOf(_, _, _, _)
RECURSIVE OriginsOfIncluded(_, _, _, _, _)
RECURSIVE OriginsOfConditionals(_, _, _, _, _)
OriginsOfIncluded(manifests, manifestdata, key, origin, i) ==
    IF i > Len(manifestdata.included_manifests) THEN <<>>
    ELSE (IF manifestdata.included_manifests[i] \in DOMAIN manifests
          THEN OriginsOf(manifests,
                         manifests[manifestdata.included_manifests[i]],
                         key, origin \o <<1, i>>)
          ELSE <<>>)
         \o OriginsOfIncluded(manifests, manifestdata, key, origin, i + 1)

OriginsOfConditionals(manifests, manifestdata, key, origin, j) ==
    IF j > Len(manifestdata.conditional_items) THEN <<>>
    ELSE (IF Matched(manifestdata.conditional_items[j])
          THEN OriginsOf(manifests, manifestdata.conditional_items[j],
                         key, origin \o <<2, j>>)
          ELSE <<>>)
         \o OriginsOfConditionals(manifests, manifestdata, key, origin,
                                  j + 1)

OriginsOf(manifests, manifestdata, key, origin) ==
    OriginsOfIncluded(manifests, manifestdata, key, origin, 1)
    \o OriginsOfConditionals(manifests, manifestdata, key, origin, 1)
    \o [k \in 1..Len(manifestdata.lists[key]) |-> origin \o <<3, k>>]

WalkOrigins == [n \in 1..Len(returned[1].walk) |-> returned[1].walk[n].origin]

\* C30: for every manifest and key, the entries of its included_manifests
\* are dispatched before those of its matched conditional_items, which are
\* dispatched before its own list, each list left to right; a conditional
\* item whose predicate is false or cannot be parsed contributes no entry.
C30_IncludedThenConditionalThenOwn ==
    ManifestWalked
    => /\ \A m, n \in 1..Len(returned[1].walk) :
             m < n => LexLess(returned[1].walk[m].origin,
                              returned[1].walk[n].origin)
       /\ \A n \in 1..Len(returned[1].walk) :
             /\ ThroughMatchedOnly(args.manifests,
                                   returned[1].walk[n].origin)
             /\ ComesFromItsOrigin(args.manifests, args.manifest_key,
                                   returned[1].walk[n])
       /\ (returned[1].exc = "" /\ ~stop
           /\ args.manifests.main.catalogs # <<>>)
          => WalkOrigins = OriginsOf(args.manifests, args.manifests.main,
                                     args.manifest_key, <<>>)

\* C30 witness: one walk dispatches entries of an included manifest, of a
\* matched conditional item and of the two items of the own list, while
\* the manifest's first conditional item is not matched.
C30_AllThreeSourcesReached ==
    /\ ManifestWalked
    /\ returned[1].exc = ""
    /\ \A source \in {1, 2, 3} :
          \E n \in 1..Len(returned[1].walk) :
             returned[1].walk[n].origin[1] = source
    /\ Len(args.manifests.main.lists[args.manifest_key]) = 2
    /\ Len(args.manifests.main.conditional_items) = 2
    /\ ~Matched(args.manifests.main.conditional_items[1])


\* ------------------------------------------------------------------------
\* processOptionalInstall: what an optional_installs entry may change
\* ------------------------------------------------------------------------
OptionalDispatchStep ==
    /\ pc = "optional_installs"
    /\ entries' = entries + 1
    /\ dispatched' # <<>>
    /\ dispatched'[1] = "optional_installs"

\* the lists an optional install has no business with
ResolvedLists(info) ==
    <<info.managed_installs, info.removals, info.processed_installs,
      info.processed_uninstalls, info.managed_updates>>

AtMostOneAppended(before, after) ==
    \/ after = before
    \/ /\ Len(after) = Len(before) + 1
       /\ SubSeq(after, 1, Len(before)) = before

\* C31: processing an optional_installs entry fetches nothing (it makes no
\* call of the resolver, the only caller of the fetch collaborator), leaves
\* managed_installs, removals, processed_installs, processed_uninstalls and
\* managed_updates unchanged, and appends at most one record to
\* optional_installs.
C31_OptionalInstallOnlyAppendsCandidate ==
    [][OptionalDispatchStep
       => /\ calls' = <<>>
          /\ ResolvedLists(installinfo') = ResolvedLists(installinfo)
          /\ pkg_references' = pkg_references
          /\ failedInstalls' = failedInstalls
          /\ AtMostOneAppended(installinfo.optional_installs,
                               installinfo'.optional_installs)]_vars

\* C31 witness: an optional_installs entry has been dispatched and has
\* appended its candidate record in a run that has pending installs.
C31_CandidateAppendedReached ==
    /\ pc = "optional_installs"
    /\ dispatched # <<>>
    /\ dispatched[1] = "optional_installs"
    /\ installinfo.managed_installs # <<>>
    /\ installinfo.optional_installs # <<>>
    /\ installinfo.optional_installs[Len(installinfo.optional_installs)].name
          = sB
    /\ dispatched[2] = sB


\* ------------------------------------------------------------------------
\* optional_installs: one record per item
\* ------------------------------------------------------------------------
\* C32: optional_installs never holds two records with the same item name,
\* whatever the optional_installs entries are, a bare name together with a
\* name-version form of the same item included.
C32_OptionalInstallsDeduplicated ==
    \A i, j \in 1..Len(installinfo.optional_installs) :
        installinfo.optional_installs[i].name
            = installinfo.optional_installs[j].name
        => i = j


\* ------------------------------------------------------------------------
\* checkForceInstallPackages: the records it makes unattended
\* ------------------------------------------------------------------------
\* the records as the call leaves them in InstallInfo.plist
RecordsLeft == installinfo_plist[1].managed_installs

MadeUnattended(install) == [install EXCEPT !.unattended_install = TRUE]

\* C33 (as stated): the call sets unattended_install on every record past
\* its deadline whose RestartAction is unset or RecommendRestart, leaves
\* every other record and every other field unchanged, and writes back
\* exactly when some record's flag changed.
C33_UnattendedUnlessLogoutOrRestart ==
    ForceInstallReturned
    => /\ Len(RecordsLeft) = Len(returned[1].read)
       /\ \A i \in 1..Len(returned[1].read) :
             RecordsLeft[i] =
                IF /\ PastDeadline(returned[1].read[i], args.now, args.offset)
                   /\ returned[1].read[i].RestartAction
                         \in {"", "RecommendRestart"}
                THEN MadeUnattended(returned[1].read[i])
                ELSE returned[1].read[i]
       /\ returned[1].writeback <=> RecordsLeft # returned[1].read

\* C33 (amended): the call sets unattended_install on every record past its
\* deadline that has no RestartAction at all; a record with any
\* RestartAction, RecommendRestart included, and every record not past its
\* deadline is left as it was, every other field is unchanged, and the
\* call writes back exactly when some record's flag changed.
C33_UnattendedWithoutRestartAction ==
    ForceInstallReturned
    => /\ Len(RecordsLeft) = Len(returned[1].read)
       /\ \A i \in 1..Len(returned[1].read) :
             RecordsLeft[i] =
                IF /\ PastDeadline(returned[1].read[i], args.now, args.offset)
                   /\ returned[1].read[i].RestartAction = ""
                THEN MadeUnattended(returned[1].read[i])
                ELSE returned[1].read[i]
       /\ returned[1].writeback <=> RecordsLeft # returned[1].read

\* C33 witness: of two records past their deadline and without the flag,
\* the one without RestartAction is made unattended and the one with
\* RecommendRestart is left as it was.
C33_RecommendRestartLeftReached ==
    /\ ForceInstallReturned
    /\ Len(returned[1].read) = 2
    /\ \A i \in 1..2 :
          /\ PastDeadline(returned[1].read[i], args.now, args.offset)
          /\ ~returned[1].read[i].unattended_install
    /\ returned[1].read[1].RestartAction = "RecommendRestart"
    /\ returned[1].read[2].RestartAction = ""
    /\ ~RecordsLeft[1].unattended_install
    /\ RecordsLeft[2].unattended_install
    /\ returned[1].writeback


\* ------------------------------------------------------------------------
\* check(): the self-serve installs and the optional installs
\* ------------------------------------------------------------------------
SelfServeInstallStep ==
    /\ pc = "selfserve_installs"
    /\ entries' = entries + 1
    /\ dispatched' # <<>>
    /\ dispatched'[1] = "selfserve_installs"

\* item['name'] for item in installinfo['optional_installs']
OptionalCandidates(info) ==
    {info.optional_installs[i].name : i \in 1..Len(info.optional_installs)}

\* C34: a name of the self-serve manifest's managed_installs is passed to
\* processInstall only if it is the name of a record of optional_installs
\* of this run; a self-serve install of any other name changes nothing of
\* what the resolver keeps.
C34_SelfServeInstallsFiltered ==
    [][SelfServeInstallStep
       => /\ calls' # <<>>
             => /\ dispatched'[2] \in OptionalCandidates(installinfo)
                /\ calls'[Len(calls')].item = dispatched'[2]
          /\ dispatched'[2] \notin OptionalCandidates(installinfo)
             => /\ calls' = <<>>
                /\ installinfo' = installinfo
                /\ pkg_references' = pkg_references
                /\ failedInstalls' = failedInstalls]_vars

\* C34 witness: with A the only optional install of the run, the
\* self-serve install of B, an item of the catalogs, has been dropped.
C34_NonCandidateDroppedReached ==
    /\ pc = "selfserve_installs"
    /\ dispatched = <<"selfserve_installs", sB>>
    /\ OptionalCandidates(installinfo) = {sA}
    /\ getItemDetail(sB, maincatalogs, <<>>) # <<>>
    /\ calls = <<>>
    /\ installinfo.managed_installs = <<>>


\* ------------------------------------------------------------------------
\* check(): InstallInfo.plist at the end of a run
\* ------------------------------------------------------------------------
\* Runs of check() follow each other on the same manifests, catalogs and
\* machine, so each run computes the same installinfo; args.manifest says
\* whether the primary manifest can be obtained, args.readable whether the
\* stored InstallInfo.plist can be read.  installinfo_plist is <<>> when
\* there is no file.
MaxRuns == 2

PlanRecords ==
    {r \in InstallRecords :
        r.force_install_after_date \in {0, 9} /\ r.RestartAction = ""}

PlanLists == UNION {[1..n -> PlanRecords] : n \in 0..MaxRecords}

Plans == {[EmptyInstallInfo EXCEPT !.managed_installs = l] : l \in PlanLists}

\* installinfochanged, were the stored file never compared
installinfochangedAlways(info, stored, readable) == TRUE

\* installinfochanged: there is no file, or it cannot be read, or what it
\* holds is not equal to installinfo
installinfochanged(info, stored, readable) ==
    ~(stored # <<>> /\ readable /\ stored[1] = info)

\* the installinfo of a run that has no primary manifest: the stored one,
\* {} when there is none or it cannot be read
FallbackInstallInfo(stored, readable) ==
    IF stored # <<>> /\ readable THEN stored[1] ELSE EmptyInstallInfo

\* what the run reports: ItemsToInstall, ItemsToRemove and its return value
RunReport(info, wrote) ==
    [wrote |-> wrote,
     ItemsToInstall |-> info.managed_installs,
     ItemsToRemove |-> info.removals,
     result |-> IF Len(info.managed_installs) + Len(info.removals) > 0
                THEN 1 ELSE 0,
     stored |-> installinfo_plist,
     manifest |-> args.manifest,
     readable |-> args.readable]

InitPersist ==
    /\ NoRun
    /\ CATALOG = << >>
    /\ installinfo \in Plans
    /\ \E stored \in Plans, exists \in BOOLEAN :
          installinfo_plist = IF exists THEN <<stored>> ELSE <<>>
    /\ \E manifest \in BOOLEAN, readable \in BOOLEAN :
          args = [fn |-> "check", manifest |-> manifest,
                  readable |-> readable]
    /\ returned = <<>>

\* the end of a run that had its primary manifest
CheckWithManifest ==
    /\ args # <<>>
    /\ args.fn = "check"
    /\ args.manifest
    /\ Len(returned) < MaxRuns
    /\ returned' =
          Append(returned,
                 RunReport(installinfo,
                           installinfochanged(installinfo, installinfo_plist,
                                              args.readable)))
    /\ installinfo_plist' =
          IF installinfochanged(installinfo, installinfo_plist, args.readable)
          THEN <<installinfo>>
          ELSE installinfo_plist
    /\ args' = [args EXCEPT !.readable = TRUE]
    /\ UNCHANGED <<CATALOG, MACHINE, maincatalogs, fetchres, installinfo,
                   pkg_references, pc, entries, dispatched, calls,
                   failedInstalls, stop>>

\* a run that could not retrieve its primary manifest
CheckWithoutManifest ==
    /\ args # <<>>
    /\ args.fn = "check"
    /\ ~args.manifest
    /\ Len(returned) < MaxRuns
    /\ returned' =
          Append(returned,
                 RunReport(FallbackInstallInfo(installinfo_plist,
                                               args.readable), FALSE))
    /\ UNCHANGED <<CATALOG, MACHINE, maincatalogs, fetchres, installinfo,
                   pkg_references, pc, entries, dispatched, calls,
                   failedInstalls, args, stop, installinfo_plist>>

\* the primary manifest becomes available, or stops being so, between runs
ManifestServerChanges ==
    /\ args # <<>>
    /\ args.fn = "check"
    /\ Len(returned) = 1
    /\ args' = [args EXCEPT !.manifest = ~@]
    /\ UNCHANGED <<CATALOG, MACHINE, maincatalogs, fetchres, installinfo,
                   pkg_references, pc, entries, dispatched, calls,
                   failedInstalls, returned, stop, installinfo_plist>>

NextPersist ==
    \/ CheckWithManifest
    \/ CheckWithoutManifest
    \/ ManifestServerChanges

SpecPersist == InitPersist /\ [][NextPersist]_vars

RunsMade == args # <<>> /\ args.fn = "check" /\ returned # <<>>

\* the file as run n left it
StoredAfter(n) ==
    IF n = Len(returned) THEN installinfo_plist ELSE returned[n + 1].stored

CacheFile(base, partial) == [base |-> base, partial |-> partial]

CacheFiles ==
    {CacheFile(b, p) : b \in {"A-2.dmg", "B-1.dmg"}, p \in BOOLEAN}
    \cup {CacheFile("old.pkg", FALSE)}

\* the lists of the files of S, in every order
Listings(S) ==
    UNION {{l \in [1..Cardinality(T) -> T] :
               \A i, j \in 1..Cardinality(T) : l[i] = l[j] => i = j} :
           T \in SUBSET S}

CachedInstalls ==
    {[name |-> sA, installed |-> FALSE, installer_item |-> "A-2.dmg"],
     [name |-> sA, installed |-> FALSE, installer_item |-> ""],
     [name |-> sB, installed |-> TRUE, installer_item |-> ""]}

CachedRemovals ==
    {[name |-> sB, installed |-> TRUE, uninstaller_item |-> "B-1.dmg"],
     [name |-> sB, installed |-> TRUE, uninstaller_item |-> ""],
     [name |-> sB, installed |-> FALSE, uninstaller_item |-> "B-1.dmg"]}

\* problem_items: not installed, but no installer item
problem_items(info) ==
    SelectSeq(info.managed_installs,
              LAMBDA item : ~item.installed /\ item.installer_item = "")

\* installinfo with managed_installs and removals filtered
FilteredInstallInfo(info) ==
    [info EXCEPT !.managed_installs = SelectSeq(@, NeedsAction),
                 !.removals = SelectSeq(@, StillInstalled)]

\* cache_list, of the filtered lists
cache_list(info) ==
    {info.managed_installs[i].installer_item :
        i \in 1..Len(info.managed_installs)}
    \cup {info.removals[i].uninstaller_item :
             i \in {k \in 1..Len(info.removals) :
                       info.removals[k].uninstaller_item # ""}}

\* one turn of the loop, were the partial downloads kept whatever
\* problem_items holds
CleanUpItemKeepingPartials(item, cache, keep, problems) ==
    IF item.partial
    THEN (IF CacheFile(item.base, FALSE) \in cache
          THEN cache \ {item} ELSE cache)
    ELSE IF item.base \notin keep THEN cache \ {item}
    ELSE cache

\* one turn of the loop over the listing: what is left of the cache
CleanUpItem(item, cache, keep, problems) ==
    IF item.partial
    THEN (IF CacheFile(item.base, FALSE) \in cache THEN cache \ {item}
          ELSE IF problems = <<>> THEN cache \ {item}
          ELSE cache)
    ELSE IF item.base \notin keep THEN cache \ {item}
    ELSE cache

RECURSIVE CleanUpCache(_, _, _, _, _)
CleanUpCache(listing, i, cache, keep, problems) ==
    IF i > Len(listing) THEN cache
    ELSE CleanUpCache(listing, i + 1,
                      CleanUpItem(listing[i], cache, keep, problems),
                      keep, problems)

InitCache ==
    /\ \E listing \in Listings(CacheFiles) :
          /\ MACHINE = [ThisMachine EXCEPT !.cache = Range(listing)]
          /\ args = [fn |-> "cleanUpCache", listing |-> listing]
    /\ \E installs \in UNION {[1..n -> CachedInstalls] : n \in 0..MaxRecords} :
       \E removals \in UNION {[1..n -> CachedRemovals] : n \in 0..1} :
          installinfo = [EmptyInstallInfo EXCEPT
                            !.managed_installs = installs,
                            !.removals = removals]
    /\ maincatalogs = <<>>
    /\ fetchres = << >>
    /\ pkg_references = << >>
    /\ pc = "filter"
    /\ entries = 0
    /\ dispatched = <<>>
    /\ calls = <<>>
    /\ failedInstalls = {}
    /\ stop = FALSE
    /\ CATALOG = << >>
    /\ installinfo_plist = <<>>
    /\ returned = <<>>

\* check(): the lists are filtered and the cache is cleaned up
FilterAndCleanUp ==
    /\ args # <<>>
    /\ args.fn = "cleanUpCache"
    /\ pc = "filter"
    /\ installinfo' = FilteredInstallInfo(installinfo)
    /\ MACHINE' =
          [MACHINE EXCEPT !.cache =
              CleanUpCache(args.listing, 1, MACHINE.cache,
                           cache_list(FilteredInstallInfo(installinfo)),
                           problem_items(installinfo))]
    /\ returned' = <<[problem_items |-> problem_items(installinfo),
                      cache |-> MACHINE.cache]>>
    /\ pc' = "write"
    /\ UNCHANGED <<CATALOG, maincatalogs, fetchres, pkg_references, entries,
                   dispatched, calls, failedInstalls, args, stop,
                   installinfo_plist>>

NextCache == FilterAndCleanUp

SpecCache == InitCache /\ [][NextCache]_vars

CacheCleaned ==
    /\ args # <<>>
    /\ args.fn = "cleanUpCache"
    /\ returned # <<>>

\* the payloads the final lists refer to
ReferencedPayloads ==
    {installinfo.managed_installs[i].installer_item :
        i \in 1..Len(installinfo.managed_installs)}
    \cup {installinfo.removals[i].uninstaller_item :
             i \in 1..Len(installinfo.removals)}

\* C36: after the run, every file of the cache that is not a partial
\* download is the installer payload of a record of the filtered
\* managed_installs or the uninstaller payload of a record of the filtered
\* removals; a partial download is left only if no completed file of its
\* name is left and some install record lacks its payload; no payload
\* the lists refer to is removed.
C36_CachePrunedToReferenced ==
    CacheCleaned
    => /\ MACHINE.cache \subseteq returned[1].cache
       /\ \A f \in MACHINE.cache :
             IF f.partial
             THEN /\ CacheFile(f.base, FALSE) \notin MACHINE.cache
                  /\ returned[1].problem_items # <<>>
             ELSE f.base \in ReferencedPayloads \ {""}
       /\ \A f \in returned[1].cache :
             (~f.partial /\ f.base \in ReferencedPayloads)
             => f \in MACHINE.cache

\* C36 witness: a completed file no record refers to was removed, a
\* referenced payload was kept, and the partial download of the removed
\* file was left because an install record lacks its payload.
C36_PartialLeftReached ==
    /\ CacheCleaned
    /\ returned[1].cache
          = {CacheFile("A-2.dmg", FALSE), CacheFile("B-1.dmg", FALSE),
             CacheFile("B-1.dmg", TRUE), CacheFile("old.pkg", FALSE)}
    /\ MACHINE.cache = {CacheFile("A-2.dmg", FALSE), CacheFile("B-1.dmg", TRUE)}
    /\ returned[1].problem_items # <<>>


\* ------------------------------------------------------------------------
\* download_installeritem: the disk space a download needs
\* ------------------------------------------------------------------------
DiskSpaces == {103400, 104400, 104401, 107400, 107401}

Sized(item, size) == [item EXCEPT !.installer_item_size = size]

InitSpace ==
    /\ CATALOG =
          [production |->
              <<Sized(PkgInfo(sA, v2, <<>>, <<>>, 0, "A-2.dmg"), 1000),
                Sized(PkgInfo(sB, v1, <<>>, <<>>, 0, "B-1.dmg"), 2000)>>]
    /\ \E space \in DiskSpaces :
       \E cache \in {{}, {"A-2.dmg"}, {"B-1.dmg"}} :
          /\ MACHINE = [ThisMachine EXCEPT !.availablediskspace = space,
                                           !.cache = cache]
          /\ \E failing \in {"", "A-2.dmg", "B-1.dmg"} :
                fetchres = [loc \in {"A-2.dmg", "B-1.dmg"} |->
                               IF loc = failing THEN "CurlDownloadError"
                               ELSE IF loc \in cache THEN "cached"
                               ELSE "downloaded"]
    /\ maincatalogs = <<"production">>
    /\ installinfo = EmptyInstallInfo
    /\ pkg_references = << >>
    /\ pc = "managed_installs"
    /\ entries = 0
    /\ dispatched = <<>>
    /\ calls = <<>>
    /\ failedInstalls = {}
    /\ stop = FALSE
    /\ args = <<>>
    /\ returned = <<>>
    /\ installinfo_plist = <<>>

NextSpace == DispatchManagedInstall

SpecSpace == InitSpace /\ [][NextSpace]_vars

\* the position, in managed_installs at its return, of the record the call
\* appended for its own item; 0 when it appended none
OwnRecord(c) ==
    IF c.item_pl = <<>> THEN 0
    ELSE IF \E k \in (Len(c.pre.managed_installs) + 1)
                         ..Len(c.post.managed_installs) :
               c.post.managed_installs[k].name = c.item_pl[1].name
    THEN CHOOSE k \in (Len(c.pre.managed_installs) + 1)
                          ..Len(c.post.managed_installs) :
             c.post.managed_installs[k].name = c.item_pl[1].name
    ELSE 0

\* the call got as far as download_installeritem: it appended the record
\* of a pending install or of a failed one
ReachedDownload(c) ==
    /\ c.fn = "processInstall"
    /\ OwnRecord(c) > 0
    /\ ~c.post.managed_installs[OwnRecord(c)].installed

\* the installed sizes of the pending installs queued before the call's own
RECURSIVE QueuedSizes(_, _)
QueuedSizes(list, n) ==
    IF n = 0 THEN 0
    ELSE QueuedSizes(list, n - 1)
         + (IF list[n].installer_item # "" THEN list[n].installed_size ELSE 0)

SpaceLeft(c) ==
    MACHINE.availablediskspace
    - QueuedSizes(c.post.managed_installs, OwnRecord(c) - 1)

Footprint(item_pl) ==
    IF item_pl.installed_size >= 0 THEN item_pl.installed_size
    ELSE item_pl.installer_item_size

PayloadCached(item_pl) == item_pl.installer_item_location \in MACHINE.cache

\* payload size - already-cached bytes + installed footprint + margin
SpaceNeeded(item_pl) ==
    item_pl.installer_item_size
    - (IF PayloadCached(item_pl) THEN item_pl.installer_item_size ELSE 0)
    + Footprint(item_pl) + fudgefactor

\* no fetch was made and the item has the record of its failure
AbortedForSpace(c) ==
    /\ c.fetcherror = "InsufficientDiskSpace"
    /\ ~c.ret
    /\ c.post.managed_installs[OwnRecord(c)].installer_item = ""
    /\ c.post.managed_installs[OwnRecord(c)].note
          = "Insufficient disk space to download and install"
    /\ OwnRecord(c) = Len(c.post.managed_installs)

\* C37 (as stated): the download is attempted only if the space left after
\* the pending installs already queued exceeds payload size minus
\* already-cached bytes plus installed footprint plus the margin; otherwise
\* no fetch is made and the item alone is aborted with a recorded failure.
C37_FetchOnlyWithSpace ==
    \A i \in 1..Len(calls) :
        ReachedDownload(calls[i])
        => IF SpaceLeft(calls[i]) > SpaceNeeded(calls[i].item_pl[1])
           THEN calls[i].fetcherror # "InsufficientDiskSpace"
           ELSE AbortedForSpace(calls[i])

\* C37 (amended): when the payload is not in the cache, the download is
\* attempted only if the space left after the pending installs already
\* queued exceeds payload size plus installed footprint plus the margin,
\* and otherwise no fetch is made and the item alone is aborted with a
\* recorded failure; when the payload is already in the cache the fetch is
\* made without any test of the space.
C37_SpaceTestedUnlessCached ==
    \A i \in 1..Len(calls) :
        ReachedDownload(calls[i])
        => IF \/ PayloadCached(calls[i].item_pl[1])
              \/ SpaceLeft(calls[i]) > SpaceNeeded(calls[i].item_pl[1])
           THEN calls[i].fetcherror # "InsufficientDiskSpace"
           ELSE /\ AbortedForSpace(calls[i])
                /\ pc # "crashed"

\* C37 witness: A is queued, B then lacks exactly the space A has
\* reserved and is aborted, the run goes on.
C37_AbortedAfterQueuedReached ==
    /\ pc = "managed_installs"
    /\ dispatched = <<"managed_installs", sB>>
    /\ MACHINE.availablediskspace = 107400
    /\ MACHINE.cache = {}
    /\ Len(installinfo.managed_installs) = 2
    /\ installinfo.managed_installs[1].installer_item = "A-2.dmg"
    /\ calls # <<>>
    /\ AbortedForSpace(calls[Len(calls)])


\* ------------------------------------------------------------------------
\* processRemoval: what a call that returns False leaves behind
\* ------------------------------------------------------------------------
\* a managed_uninstalls entry was dispatched, processRemoval returned False
\* for it, and so did every call it made
FailedRemovalStep ==
    /\ DispatchManagedUninstall
    /\ pc' = pc
    /\ calls' # <<>>
    /\ \A i \in 1..Len(calls') :
          calls'[i].fn = "processRemoval" /\ ~calls'[i].ret

\* C38: a processRemoval call that returns False (name in no catalog, no
\* usable uninstall method, a dependent that cannot be removed, or no
\* unique packages to remove) leaves installinfo and the per-package
\* references as they were before the call.
C38_FailedRemovalLeavesStateUnchanged ==
    [][FailedRemovalStep
       => /\ installinfo' = installinfo
          /\ pkg_references' = pkg_references]_vars

====
